---- MODULE Spec2Model ----
\* Model of the FutureSight metrics collector (src/src/data.rs): the poll
\* cycle of MetricsCollector::collect_metrics, the staleness check and the
\* tx-pool snapshot.  collect_metrics is an async fn; every await of a network
\* call is one step of the model, and `pc` is the position inside it.
EXTENDS Integers, Sequences, FiniteSets, TLC

VARIABLES
    metrics,      \* MetricsCollector.metrics : SignetMetrics
    tx_client,    \* MetricsCollector.tx_client : Option<TxPoolClient>
    pc,           \* position inside collect_metrics ("idle" between calls)
    status,       \* the local `status` of collect_metrics (None outside a poll)
    fetch_range,  \* the local `fetch_range`, the part not yet iterated
    now,          \* the monotonic clock read by Instant::now()
    prior_history,\* history: block_history as it was when the running poll started
    calls,        \* history: the network calls issued by the running poll, in order
    evicted,      \* history: block numbers popped from the back by the running poll
    config,       \* the Config the collector was built from
    refresh_interval, \* cli.refresh_interval, in seconds
    main_pc,      \* position inside main ("none" when no main loop drives the collector)
    active,       \* main: the collector whose state the variables above hold
    parked,       \* main: the metrics of the other collector, which is between calls
    last_update,  \* main: the local `last_update`
    hung,         \* the endpoints whose network calls never return
    head          \* the node's chain: its head number and whether it has stopped
                  \* for good (None where the node's answers are left open)

vars == <<metrics, tx_client, pc, status, fetch_range, now, prior_history, calls, evicted,
          config, refresh_interval, main_pc, active, parked, last_update, hung, head>>

\* what main and the node own; no step of a collector writes it
main_vars == <<config, refresh_interval, main_pc, active, parked, last_update, hung, head>>

\* ---------------------------------------------------------------- bounds
MaxHead == 7            \* highest block number the node reports
MaxHist == 2            \* largest configured max_block_history
MaxTicks == 4           \* the clock stops after MaxTicks ticks
MaxRows == 2            \* largest configured txpool_max_rows
MaxWireRows == 3        \* most rows the tx-pool service returns in one page
U64_MAX == 63           \* u64::MAX, scaled down to 6 bits
U128_MAX == 255         \* u128::MAX, scaled down to 8 bits
RatioDen == 4           \* gas-used ratios are multiples of 1/RatioDen
F64_MANTISSA == 4       \* significand bits of an f64 (53), scaled like U128_MAX

\* ---------------------------------------------------------------- config.rs
MAX_BACKFILL_PER_CYCLE == 6
STALE_AFTER == 20
FEE_HISTORY_PERCENTILES == <<10, 25, 50, 75, 90>>
SUGGESTION_RAMP_FACTOR == 2

\* The clock advances in steps of half the staleness threshold.
TickSecs == STALE_AFTER \div 2

\* ---------------------------------------------------------------- Option / Result
None == <<>>
Some(v) == <<v>>
IsSome(o) == o # None
Unwrap(o) == o[1]

Ok(v) == [ok |-> TRUE, val |-> <<v>>]
Err == [ok |-> FALSE, val |-> <<>>]
Value(r) == r.val[1]

\* ---------------------------------------------------------------- ConnectionStatus
Connected == [tag |-> "Connected", msg |-> ""]
Stale == [tag |-> "Stale", msg |-> ""]
Disconnected == [tag |-> "Disconnected", msg |-> ""]
Error(m) == [tag |-> "Error", msg |-> m]

IsConnected(s) == s = Some(Connected)

\* ---------------------------------------------------------------- sequences
Min(a, b) == IF a < b THEN a ELSE b

PushFront(q, x) == <<x>> \o q

\* RevRangeTake without the .rev(): the lowest numbers of the range
RevRangeTake_NoRev(start, end, n) ==
    [i \in 1..(IF end - start + 1 < n THEN end - start + 1 ELSE n) |-> start + (i - 1)]

\* (start..=end).rev().take(n).collect()
RevRangeTake(start, end, n) ==
    [i \in 1..Min(end - start + 1, n) |-> end - (i - 1)]

Numbers(q) == [i \in 1..Len(q) |-> q[i].number]

\* ---------------------------------------------------------------- SignetMetrics
SignetMetricsNew(max_block_history) ==
    [ block_number               |-> None,
      gas_price                  |-> None,
      chain_id                   |-> None,
      last_updated               |-> now,
      last_successful            |-> None,
      connection_status          |-> Disconnected,
      block_history              |-> <<>>,
      max_block_history          |-> max_block_history,
      latest_block_timestamp     |-> None,
      txpool                     |-> None,
      base_fee_per_gas           |-> None,
      next_base_fee_per_gas      |-> None,
      max_priority_fee_suggested |-> None,
      suggested_fees             |-> None,
      fee_history                |-> None,
      gas_utilization_ma_n       |-> None,
      gas_volatility_5m          |-> None ]

\* ---------------------------------------------------------------- backfill
\* FetchRange with `vec![latest_num]` also in the branch of a head that is
\* not above the front entry
FetchRange_Refetch(latest_num, block_history) ==
    IF block_history # <<>>
    THEN LET last == block_history[1].number
         IN  IF latest_num > last
             THEN RevRangeTake(last + 1, latest_num, MAX_BACKFILL_PER_CYCLE)
             ELSE <<latest_num>>
    ELSE <<latest_num>>

\* The range of block numbers to request, from the reported head and the
\* front entry of the history.
FetchRange(latest_num, block_history) ==
    IF block_history # <<>>
    THEN LET last == block_history[1].number
         IN  IF latest_num > last
             THEN RevRangeTake(last + 1, latest_num, MAX_BACKFILL_PER_CYCLE)
             ELSE <<>>
    ELSE <<latest_num>>

\* Excess with the loop condition off by one: `while len > max + 1`
Excess_OffByOne(q, max_block_history) ==
    IF Len(q) > max_block_history + 1 THEN Len(q) - (max_block_history + 1) ELSE 0

\* The number of entries the `while len > max` loop pops from the back.
Excess(q, max_block_history) ==
    IF Len(q) > max_block_history THEN Len(q) - max_block_history ELSE 0

\* while block_history.len() > max_block_history { pop_back() }
Trim(q, max_block_history) ==
    SubSeq(q, 1, Len(q) - Excess(q, max_block_history))

\* The entries popped by Trim.
Popped(q, max_block_history) ==
    { q[i].number : i \in (Len(q) - Excess(q, max_block_history) + 1)..Len(q) }

\* RecordBlock with push_back: a full history drops the block just fetched
RecordBlock_PushBack(block_history, block, max_block_history) ==
    Trim(Append(block_history, block), max_block_history)

\* block_history.push_front(block) followed by the eviction loop.
RecordBlock(block_history, block, max_block_history) ==
    Trim(PushFront(block_history, block), max_block_history)

\* LatestTimestamp without the comparison: the last fetched block wins
LatestTimestamp_Overwrite(cur, ts) == Some(ts)

\* latest_block_timestamp after a block with timestamp ts was fetched.
LatestTimestamp(cur, ts) ==
    IF IsSome(cur) THEN (IF ts > Unwrap(cur) THEN Some(ts) ELSE cur) ELSE Some(ts)

\* ---------------------------------------------------------------- hex quantities
\* A string is a sequence of one-character strings.
HexChars == <<"0", "1", "2", "3", "4", "5", "6", "7", "8", "9",
              "a", "b", "c", "d", "e", "f">>
HexCharsUpper == <<"0", "1", "2", "3", "4", "5", "6", "7", "8", "9",
                   "A", "B", "C", "D", "E", "F">>

IsHexDigit(c) == \E i \in 1..16 : HexChars[i] = c \/ HexCharsUpper[i] = c

HexVal(c) == (CHOOSE i \in 1..16 : HexChars[i] = c \/ HexCharsUpper[i] = c) - 1

\* s.trim_start_matches("0x"): every leading repetition of "0x" is removed.
RECURSIVE TrimStartMatches0x(_)
TrimStartMatches0x(s) ==
    IF Len(s) >= 2 /\ s[1] = "0" /\ s[2] = "x"
    THEN TrimStartMatches0x(SubSeq(s, 3, Len(s)))
    ELSE s

\* The value of a string of hex digits, stopping at max + 1 once it overflows.
RECURSIVE DigitsValue(_, _, _)
DigitsValue(t, acc, max) ==
    IF t = <<>> THEN acc
    ELSE IF acc * 16 + HexVal(t[1]) > max THEN max + 1
    ELSE DigitsValue(Tail(t), acc * 16 + HexVal(t[1]), max)

\* uN::from_str_radix(t, 16).ok(): an optional "+", then one or more digits,
\* and the value must fit the type.
FromStrRadix16(t, max) ==
    LET digits == IF t # <<>> /\ t[1] = "+" THEN Tail(t) ELSE t
    IN  IF digits = <<>> \/ \E i \in 1..Len(digits) : ~IsHexDigit(digits[i])
        THEN None
        ELSE IF DigitsValue(digits, 0, max) > max THEN None
        ELSE Some(DigitsValue(digits, 0, max))

hex_to_u64(s) == FromStrRadix16(TrimStartMatches0x(s), U64_MAX)

hex_to_u128(s) == FromStrRadix16(TrimStartMatches0x(s), U128_MAX)

\* ---------------------------------------------------------------- f64 values
\* A float is kept as an exact fraction <<numerator, denominator>>, reduced and
\* with a positive denominator.
RECURSIVE Gcd(_, _)
Gcd(a, b) == IF b = 0 THEN a ELSE Gcd(b, a % b)

Abs(x) == IF x < 0 THEN 0 - x ELSE x

Frac(n, d) ==
    LET g == Gcd(Abs(n), Abs(d))
        sgn == IF d < 0 THEN 0 - 1 ELSE 1
    IN  <<(sgn * n) \div g, (sgn * d) \div g>>

RECURSIVE Pow2(_)
Pow2(e) == IF e = 0 THEN 1 ELSE 2 * Pow2(e - 1)

\* the exponent of the unit in the last place of the f64 nearest to x
RECURSIVE UlpExp(_, _)
UlpExp(x, e) == IF x < Pow2(F64_MANTISSA + e) THEN e ELSE UlpExp(x, e + 1)

\* x as f64, for an unsigned integer x: the nearest value with F64_MANTISSA
\* significant bits, ties to the even significand
AsF64(x) ==
    LET step == Pow2(UlpExp(x, 0))
        q == x \div step
        r == x % step
    IN  IF 2 * r > step \/ (2 * r = step /\ q % 2 = 1) THEN (q + 1) * step ELSE q * step

RECURSIVE SumSeq(_)
SumSeq(q) == IF q = <<>> THEN 0 ELSE q[1] + SumSeq(Tail(q))

\* ---------------------------------------------------------------- fee estimation
\* for hf in base_fee_per_gas { if let Some(v) = hex_to_u128(hf) { push(v) } }
RECURSIVE FilterMapHex(_)
FilterMapHex(q) ==
    IF q = <<>> THEN <<>>
    ELSE IF IsSome(hex_to_u128(q[1]))
         THEN <<Unwrap(hex_to_u128(q[1]))>> \o FilterMapHex(Tail(q))
         ELSE FilterMapHex(Tail(q))

\* CurrentBaseFee that takes the last entry whatever the length
CurrentBaseFee_Last(base_fees) ==
    IF base_fees # <<>> THEN Some(base_fees[Len(base_fees)]) ELSE None

CurrentBaseFee(base_fees) ==
    IF Len(base_fees) >= 2 THEN Some(base_fees[Len(base_fees) - 1])
    ELSE IF base_fees # <<>> THEN Some(base_fees[Len(base_fees)])
    ELSE None

NextBaseFee(base_fees) ==
    IF Len(base_fees) >= 2 THEN Some(base_fees[Len(base_fees)]) ELSE None

\* gas_used_ratio arrives as a multiple of 1/RatioDen; r * 100.0
GasUsedRatios(gas_used_ratio) ==
    [i \in 1..Len(gas_used_ratio) |-> Frac(gas_used_ratio[i] * 100, RatioDen)]

UtilizationMa(gas_used_ratio) ==
    IF gas_used_ratio = <<>> THEN None
    ELSE Some(Frac(SumSeq(gas_used_ratio) * 100, RatioDen * Len(gas_used_ratio)))

\* sample.iter().map(|&x| x as f64).sum::<f64>(): every entry is rounded to
\* an f64 and so is every partial sum
RECURSIVE SumF64(_, _)
SumF64(q, acc) ==
    IF q = <<>> THEN acc ELSE SumF64(Tail(q), AsF64(acc + AsF64(q[1])))

\* (cur - avg) / avg over the base fees without the last one, avg = sum / len
\* and cur the last entry of the sample as f64; the two quotients are kept
\* exact
Volatility(base_fees) ==
    IF Len(base_fees) >= 2
    THEN LET sample == SubSeq(base_fees, 1, Len(base_fees) - 1)
             sum == SumF64(sample, 0)
             cur == AsF64(sample[Len(sample)])
         IN  IF sum > 0
             THEN Some(Frac(cur * Len(sample) - sum, sum))
             ELSE None
    ELSE None

\* The values of column pi (1-based) over the rows that have a decodable one.
RECURSIVE RewardSeries(_, _)
RewardSeries(reward, pi) ==
    IF reward = <<>> THEN <<>>
    ELSE IF Len(reward[1]) >= pi /\ IsSome(hex_to_u128(reward[1][pi]))
         THEN <<Unwrap(hex_to_u128(reward[1][pi]))>> \o RewardSeries(Tail(reward), pi)
         ELSE RewardSeries(Tail(reward), pi)

RewardPerc(reward) ==
    [pi \in 1..Len(FEE_HISTORY_PERCENTILES) |->
        <<FEE_HISTORY_PERCENTILES[pi], RewardSeries(reward, pi)>>]

BlockCount(h) == Len(h.gas_used_ratio)

\* 0-based index of the row the suggestions are read from
LastIdx(h) == IF BlockCount(h) > 0 THEN BlockCount(h) - 1 ELSE 0

PickPriority(h, target) ==
    IF \E i \in 1..Len(FEE_HISTORY_PERCENTILES) : FEE_HISTORY_PERCENTILES[i] = target
    THEN LET idx == CHOOSE i \in 1..Len(FEE_HISTORY_PERCENTILES) :
                        FEE_HISTORY_PERCENTILES[i] = target
             row == LastIdx(h) + 1
         IN  IF Len(h.reward) >= row /\ Len(h.reward[row]) >= idx
             THEN hex_to_u128(h.reward[row][idx])
             ELSE None
    ELSE None

OrElse(a, b) == IF IsSome(a) THEN a ELSE b

PrioSafe(h) == OrElse(PickPriority(h, 25), OrElse(PickPriority(h, 10), PickPriority(h, 50)))

PrioStd(h) == OrElse(PickPriority(h, 50), PrioSafe(h))

PrioFast(h) == OrElse(PickPriority(h, 75), OrElse(PickPriority(h, 90), PrioStd(h)))

SaturatingAdd(a, b) == IF a + b > U128_MAX THEN U128_MAX ELSE a + b

\* ((p as f64) * SUGGESTION_RAMP_FACTOR) as u128: p is rounded to an f64, the
\* product by 2.0 is exact, and the cast back saturates
Ramp(p) == IF AsF64(p) * SUGGESTION_RAMP_FACTOR > U128_MAX THEN U128_MAX
           ELSE AsF64(p) * SUGGESTION_RAMP_FACTOR

SuggestedFeeTierDefault == [max_fee_per_gas |-> 0, max_priority_fee_per_gas |-> 0]

Mk(prio, next_base_fee) ==
    IF IsSome(prio) /\ IsSome(next_base_fee)
    THEN [max_fee_per_gas |-> SaturatingAdd(Unwrap(next_base_fee), Ramp(Unwrap(prio))),
          max_priority_fee_per_gas |-> Unwrap(prio)]
    ELSE SuggestedFeeTierDefault

SuggestedFees(h) ==
    LET next == NextBaseFee(FilterMapHex(h.base_fee_per_gas))
    IN  [safe     |-> Mk(PrioSafe(h), next),
         standard |-> Mk(PrioStd(h), next),
         fast     |-> Mk(PrioFast(h), next)]

UnwrapOr(o, d) == IF IsSome(o) THEN Unwrap(o) ELSE d

FeeHistoryMetrics(h) ==
    [oldest_block       |-> UnwrapOr(hex_to_u64(h.oldest_block), 0),
     block_count        |-> BlockCount(h),
     base_fees          |-> FilterMapHex(h.base_fee_per_gas),
     gas_used_ratios    |-> GasUsedRatios(h.gas_used_ratio),
     reward_percentiles |-> RewardPerc(h.reward)]

\* FeeHistoryOk whose mk reads next_base_fee_per_gas before this poll has
\* assigned it: the tiers are built on the next base fee of the poll before
FeeHistoryOk_StaleNext(m, h) ==
    [m EXCEPT !.base_fee_per_gas      = CurrentBaseFee(FilterMapHex(h.base_fee_per_gas)),
              !.next_base_fee_per_gas = NextBaseFee(FilterMapHex(h.base_fee_per_gas)),
              !.gas_utilization_ma_n  = UtilizationMa(h.gas_used_ratio),
              !.gas_volatility_5m     = Volatility(FilterMapHex(h.base_fee_per_gas)),
              !.suggested_fees        = Some([safe     |-> Mk(PrioSafe(h), m.next_base_fee_per_gas),
                                              standard |-> Mk(PrioStd(h), m.next_base_fee_per_gas),
                                              fast     |-> Mk(PrioFast(h), m.next_base_fee_per_gas)]),
              !.fee_history           = Some(FeeHistoryMetrics(h))]

\* The Ok(h) arm of the fee-history match.
FeeHistoryOk(m, h) ==
    [m EXCEPT !.base_fee_per_gas      = CurrentBaseFee(FilterMapHex(h.base_fee_per_gas)),
              !.next_base_fee_per_gas = NextBaseFee(FilterMapHex(h.base_fee_per_gas)),
              !.gas_utilization_ma_n  = UtilizationMa(h.gas_used_ratio),
              !.gas_volatility_5m     = Volatility(FilterMapHex(h.base_fee_per_gas)),
              !.suggested_fees        = Some(SuggestedFees(h)),
              !.fee_history           = Some(FeeHistoryMetrics(h))]

\* FeeHistoryErr that forgets to clear suggested_fees
FeeHistoryErr_KeepSuggested(m) ==
    [m EXCEPT !.fee_history           = None,
              !.base_fee_per_gas      = None,
              !.next_base_fee_per_gas = None,
              !.gas_utilization_ma_n  = None,
              !.gas_volatility_5m     = None]

\* The Err arm of the fee-history match.
FeeHistoryErr(m) ==
    [m EXCEPT !.fee_history           = None,
              !.base_fee_per_gas      = None,
              !.next_base_fee_per_gas = None,
              !.suggested_fees        = None,
              !.gas_utilization_ma_n  = None,
              !.gas_volatility_5m     = None]

\* ---------------------------------------------------------------- tx-pool client
RECOGNIZED_KEYS == {"items", "data", "transactions", "bundles", "signedOrders", "signed_orders"}

\* TxPoolClient::new
TxPoolClientNew(max_rows, fetch_list) ==
    [max_rows |-> IF max_rows > 1 THEN max_rows ELSE 1, fetch_list |-> fetch_list]

\* count_items over a parsed JSON value
count_items(json) ==
    IF json.shape = "array" THEN Some(json.len)
    ELSE IF json.shape = "object" /\ json.key \in RECOGNIZED_KEYS THEN Some(json.len)
    ELSE None

\* fetch_count_from that fails on a non-2xx status, as fetch_transactions does
fetch_count_from_StatusErr(resp) ==
    IF resp.transport = "failed" THEN Err
    ELSE IF ~resp.success THEN Err
    ELSE IF ~resp.is_json THEN Ok(None)
    ELSE Ok(count_items(resp.json))

\* fetch_count_from over the response of the endpoint: Err on a transport
\* failure, Ok(None) on a non-2xx status or a body that is not JSON.
fetch_count_from(resp) ==
    IF resp.transport = "failed" THEN Err
    ELSE IF ~resp.success THEN Ok(None)
    ELSE IF ~resp.is_json THEN Ok(None)
    ELSE Ok(count_items(resp.json))

\* filter_map(TxPoolTx::from_wire): a wire record without a parsable sender is dropped
RECURSIVE FilterMapFromWire(_)
FilterMapFromWire(rows) ==
    IF rows = <<>> THEN <<>>
    ELSE IF rows[1].from_ok
         THEN <<rows[1].id>> \o FilterMapFromWire(Tail(rows))
         ELSE FilterMapFromWire(Tail(rows))

Truncate(q, n) == IF Len(q) > n THEN SubSeq(q, 1, n) ELSE q

\* fetch_transactions(None) over the response of /transactions
fetch_transactions(client, resp) ==
    IF ~client.fetch_list THEN Ok([txs |-> <<>>, has_more |-> FALSE])
    ELSE IF resp.transport = "failed" THEN Err
    ELSE IF ~resp.success THEN Err
    ELSE IF ~resp.is_json THEN Err
    ELSE Ok([txs |-> Truncate(FilterMapFromWire(resp.transactions), client.max_rows),
             has_more |-> resp.cursor])

\* TxPoolMetrics::new
TxPoolMetricsNew ==
    [healthy             |-> FALSE,
     last_updated        |-> now,
     error               |-> None,
     transactions_cache  |-> None,
     bundles_cache       |-> None,
     signed_orders_cache |-> None,
     transactions        |-> <<>>,
     has_more            |-> FALSE]

\* The `errors` vector of fetch_metrics after the four sub-fetches.
PoolErrors(client, r) ==
    (IF fetch_count_from(r.transactions).ok THEN <<>> ELSE <<"transactions">>)
    \o (IF fetch_count_from(r.bundles).ok THEN <<>> ELSE <<"bundles">>)
    \o (IF fetch_count_from(r.signed_orders).ok THEN <<>> ELSE <<"signed-orders">>)
    \o (IF fetch_transactions(client, r.list).ok THEN <<>> ELSE <<"transactions list">>)

CountOrNone(res) == IF res.ok THEN Value(res) ELSE None

\* Healthy without the else arm: true only when no sub-fetch errored
Healthy_Strict(errors, out) == errors = <<>>

\* out.healthy as the final if/else of fetch_metrics sets it
Healthy(errors, out) ==
    IF errors = <<>> THEN TRUE
    ELSE \/ IsSome(out.transactions_cache)
         \/ IsSome(out.bundles_cache)
         \/ IsSome(out.signed_orders_cache)
         \/ out.transactions # <<>>

\* fetch_metrics returning TxPoolMetrics::with_error as soon as a sub-fetch errored
fetch_metrics_Discard(client, r) ==
    LET list == fetch_transactions(client, r.list)
        errors == PoolErrors(client, r)
        out == [TxPoolMetricsNew EXCEPT
                   !.transactions_cache  = CountOrNone(fetch_count_from(r.transactions)),
                   !.bundles_cache       = CountOrNone(fetch_count_from(r.bundles)),
                   !.signed_orders_cache = CountOrNone(fetch_count_from(r.signed_orders)),
                   !.transactions        = IF list.ok THEN Value(list).txs ELSE <<>>,
                   !.has_more            = IF list.ok THEN Value(list).has_more ELSE FALSE]
    IN  IF errors = <<>>
        THEN [out EXCEPT !.healthy = TRUE]
        ELSE [TxPoolMetricsNew EXCEPT !.error = Some(errors)]

\* TxPoolClient::fetch_metrics over the responses r of the four endpoints
fetch_metrics(client, r) ==
    LET list == fetch_transactions(client, r.list)
        errors == PoolErrors(client, r)
        out == [TxPoolMetricsNew EXCEPT
                   !.transactions_cache  = CountOrNone(fetch_count_from(r.transactions)),
                   !.bundles_cache       = CountOrNone(fetch_count_from(r.bundles)),
                   !.signed_orders_cache = CountOrNone(fetch_count_from(r.signed_orders)),
                   !.transactions        = IF list.ok THEN Value(list).txs ELSE <<>>,
                   !.has_more            = IF list.ok THEN Value(list).has_more ELSE FALSE]
    IN  [out EXCEPT !.healthy = Healthy(errors, out),
                    !.error   = IF errors = <<>> THEN None ELSE Some(errors)]

\* ---------------------------------------------------------------- collect_metrics
\* One entry of the call log: the method, its argument and whether it succeeded.
Call(method, arg, ok) == [method |-> method, arg |-> arg, ok |-> ok]

\* status after the get_chain_id match
StatusAfterChainId(res) ==
    IF res.ok THEN Some(Connected) ELSE Some(Error("Chain ID"))

\* status after a later liveness stage returned res
StatusAfterStage(st, res, stage) ==
    IF res.ok THEN st ELSE Some(Error(stage))

\* StatusAfterInformational with a success arm that assigns Connected
StatusAfterInformational_Promote(st, res) == IF res.ok THEN Some(Connected) ELSE st

\* status after fee history or the priority-fee suggestion returned: neither
\* match arm assigns it
StatusAfterInformational(st, res) == st

\* AfterChainId without the `if matches!(status, Connected)` around get_block_number
AfterChainId_NoSkip(st) == "get_block_number"

\* Where collect_metrics goes once get_chain_id returned: the three
\* `if matches!(status, Connected)` blocks are entered or skipped together.
AfterChainId(st) == IF IsConnected(st) THEN "get_block_number" ELSE "finish"

\* AfterBlockNumber without the `if matches!(status, Connected)` around the
\* backfill and the gas-price call
AfterBlockNumber_NoSkip(st, range) ==
    IF range # <<>> THEN "get_block_by_number" ELSE "get_gas_price"

\* Where collect_metrics goes once get_block_number returned.
AfterBlockNumber(st, range) ==
    IF IsConnected(st)
    THEN (IF range # <<>> THEN "get_block_by_number" ELSE "get_gas_price")
    ELSE "finish"

\* Where collect_metrics goes after one iteration of the backfill loop.
AfterBlock(range) == IF range # <<>> THEN "get_block_by_number" ELSE "get_gas_price"

\* AfterGasPrice that asks for the gas price again after a failure
AfterGasPrice_RetryOnErr(st) == IF IsConnected(st) THEN "get_fee_history" ELSE "get_gas_price"

\* Where collect_metrics goes once get_gas_price returned: the fee-history
\* request is inside the same `if` block as the gas-price request.
AfterGasPrice(st) == "get_fee_history"

\* Entry of collect_metrics.
PollStart ==
    /\ pc = "idle"
    /\ pc' = "get_chain_id"
    /\ prior_history' = metrics.block_history
    /\ calls' = <<>>
    /\ evicted' = {}
    /\ UNCHANGED <<metrics, tx_client, status, fetch_range, now>>

GetChainId(res) ==
    /\ pc = "get_chain_id"
    /\ calls' = Append(calls, Call("get_chain_id", None, res.ok))
    /\ metrics' = IF res.ok THEN [metrics EXCEPT !.chain_id = Some(Value(res))] ELSE metrics
    /\ status' = StatusAfterChainId(res)
    /\ pc' = AfterChainId(status')
    /\ UNCHANGED <<tx_client, fetch_range, now, prior_history, evicted>>

\* GetBlockNumber with a failure arm that clears the recorded block number
GetBlockNumber_ClearOnErr(res) ==
    /\ pc = "get_block_number"
    /\ calls' = Append(calls, Call("get_block_number", None, res.ok))
    /\ metrics' = [metrics EXCEPT !.block_number = IF res.ok THEN Some(Value(res)) ELSE None]
    /\ status' = StatusAfterStage(status, res, "Block number")
    /\ fetch_range' = IF IsConnected(status') /\ IsSome(metrics'.block_number)
                      THEN FetchRange(Unwrap(metrics'.block_number), metrics.block_history)
                      ELSE <<>>
    /\ pc' = AfterBlockNumber(status', fetch_range')
    /\ UNCHANGED <<tx_client, now, prior_history, evicted>>

GetBlockNumber(res) ==
    /\ pc = "get_block_number"
    /\ calls' = Append(calls, Call("get_block_number", None, res.ok))
    /\ metrics' = IF res.ok THEN [metrics EXCEPT !.block_number = Some(Value(res))] ELSE metrics
    /\ status' = StatusAfterStage(status, res, "Block number")
    /\ fetch_range' = IF IsConnected(status') /\ IsSome(metrics'.block_number)
                      THEN FetchRange(Unwrap(metrics'.block_number), metrics.block_history)
                      ELSE <<>>
    /\ pc' = AfterBlockNumber(status', fetch_range')
    /\ UNCHANGED <<tx_client, now, prior_history, evicted>>

\* GetBlockByNumber with a `break` in place of the skipped failure
GetBlockByNumber_AbortOnErr(res) ==
    /\ pc = "get_block_by_number"
    /\ fetch_range # <<>>
    /\ calls' = Append(calls, Call("get_block_by_number", Some(Head(fetch_range)), res.ok))
    /\ IF res.ok
       THEN /\ metrics' = [metrics EXCEPT
                 !.latest_block_timestamp =
                     LatestTimestamp(metrics.latest_block_timestamp, Value(res).timestamp),
                 !.block_history =
                     RecordBlock(metrics.block_history, Value(res), metrics.max_block_history)]
            /\ evicted' = evicted \cup Popped(PushFront(metrics.block_history, Value(res)),
                                              metrics.max_block_history)
       ELSE UNCHANGED <<metrics, evicted>>
    /\ fetch_range' = IF res.ok THEN Tail(fetch_range) ELSE <<>>
    /\ pc' = AfterBlock(fetch_range')
    /\ UNCHANGED <<tx_client, status, now, prior_history>>

GetBlockByNumber(res) ==
    /\ pc = "get_block_by_number"
    /\ fetch_range # <<>>
    /\ calls' = Append(calls, Call("get_block_by_number", Some(Head(fetch_range)), res.ok))
    /\ IF res.ok
       THEN /\ metrics' = [metrics EXCEPT
                 !.latest_block_timestamp =
                     LatestTimestamp(metrics.latest_block_timestamp, Value(res).timestamp),
                 !.block_history =
                     RecordBlock(metrics.block_history, Value(res), metrics.max_block_history)]
            /\ evicted' = evicted \cup Popped(PushFront(metrics.block_history, Value(res)),
                                              metrics.max_block_history)
       ELSE UNCHANGED <<metrics, evicted>>
    /\ fetch_range' = Tail(fetch_range)
    /\ pc' = AfterBlock(fetch_range')
    /\ UNCHANGED <<tx_client, status, now, prior_history>>

GetGasPrice(res) ==
    /\ pc = "get_gas_price"
    /\ calls' = Append(calls, Call("get_gas_price", None, res.ok))
    /\ metrics' = IF res.ok THEN [metrics EXCEPT !.gas_price = Some(Value(res))] ELSE metrics
    /\ status' = StatusAfterStage(status, res, "Gas price")
    /\ pc' = AfterGasPrice(status')
    /\ UNCHANGED <<tx_client, fetch_range, now, prior_history, evicted>>

GetFeeHistory(res) ==
    /\ pc = "get_fee_history"
    /\ calls' = Append(calls, Call("get_fee_history",
                                   IF res.ok THEN Some(Value(res)) ELSE None, res.ok))
    /\ metrics' = IF res.ok THEN FeeHistoryOk(metrics, Value(res)) ELSE FeeHistoryErr(metrics)
    /\ status' = StatusAfterInformational(status, res)
    /\ pc' = "get_max_priority_fee_per_gas"
    /\ UNCHANGED <<tx_client, fetch_range, now, prior_history, evicted>>

\* GetMaxPriorityFeePerGas whose failure is taken for a failure of the poll
GetMaxPriorityFeePerGas_FailsPoll(res) ==
    /\ pc = "get_max_priority_fee_per_gas"
    /\ calls' = Append(calls, Call("get_max_priority_fee_per_gas", None, res.ok))
    /\ metrics' = [metrics EXCEPT !.max_priority_fee_suggested =
                                      IF res.ok THEN Some(Value(res)) ELSE None]
    /\ status' = StatusAfterStage(status, res, "Priority fee")
    /\ pc' = "finish"
    /\ UNCHANGED <<tx_client, fetch_range, now, prior_history, evicted>>

GetMaxPriorityFeePerGas(res) ==
    /\ pc = "get_max_priority_fee_per_gas"
    /\ calls' = Append(calls, Call("get_max_priority_fee_per_gas", None, res.ok))
    /\ metrics' = [metrics EXCEPT !.max_priority_fee_suggested =
                                      IF res.ok THEN Some(Value(res)) ELSE None]
    /\ status' = StatusAfterInformational(status, res)
    /\ pc' = "finish"
    /\ UNCHANGED <<tx_client, fetch_range, now, prior_history, evicted>>

\* Finished without the `if matches!(status, Connected)` around last_successful
Finished_AlwaysSuccessful(m, st, t) ==
    [m EXCEPT !.connection_status = Unwrap(st),
              !.last_updated      = t,
              !.last_successful   = Some(t)]

\* Finished without the assignment to last_successful
Finished_NoStamp(m, st, t) ==
    [m EXCEPT !.connection_status = Unwrap(st),
              !.last_updated      = t]

\* Finished that leaves a Stale snapshot Stale
Finished_KeepStale(m, st, t) ==
    [m EXCEPT !.connection_status = IF m.connection_status = Stale THEN Stale ELSE Unwrap(st),
              !.last_updated      = t,
              !.last_successful   = IF IsConnected(st) THEN Some(t) ELSE m.last_successful]

\* connection_status, last_updated and last_successful as the poll sets them
Finished(m, st, t) ==
    [m EXCEPT !.connection_status = Unwrap(st),
              !.last_updated      = t,
              !.last_successful   = IF IsConnected(st) THEN Some(t) ELSE m.last_successful]

\* Finish with the tx-pool fetch inside an `if matches!(status, Connected)`
Finish_PoolIfConnected ==
    /\ pc = "finish"
    /\ metrics' = Finished(metrics, status, now)
    /\ pc' = IF IsSome(tx_client) /\ IsConnected(status) THEN "fetch_metrics" ELSE "return"
    /\ UNCHANGED <<tx_client, status, fetch_range, now, prior_history, calls, evicted>>

Finish ==
    /\ pc = "finish"
    /\ metrics' = Finished(metrics, status, now)
    /\ pc' = IF IsSome(tx_client) THEN "fetch_metrics" ELSE "return"
    /\ UNCHANGED <<tx_client, status, fetch_range, now, prior_history, calls, evicted>>

FetchTxpool(r) ==
    /\ pc = "fetch_metrics"
    /\ calls' = Append(calls, Call("fetch_metrics", Some(r), TRUE))
    /\ metrics' = [metrics EXCEPT !.txpool = Some(fetch_metrics(Unwrap(tx_client), r))]
    /\ pc' = "return"
    /\ UNCHANGED <<tx_client, status, fetch_range, now, prior_history, evicted>>

\* collect_metrics returns &self.metrics; its locals go out of scope.
PollReturn ==
    /\ pc = "return"
    /\ pc' = "idle"
    /\ status' = None
    /\ fetch_range' = <<>>
    /\ prior_history' = <<>>
    /\ calls' = <<>>
    /\ evicted' = {}
    /\ UNCHANGED <<metrics, tx_client, now>>

\* ---------------------------------------------------------------- check_staleness
\* StalenessChecked without the `matches!(Connected | Stale)` guard
StalenessChecked_NoGuard(m, t) ==
    IF IsSome(m.last_successful) /\ t - Unwrap(m.last_successful) > STALE_AFTER
    THEN [m EXCEPT !.connection_status = Stale]
    ELSE m

\* StalenessChecked with `>=` in place of `>`
StalenessChecked_AtThreshold(m, t) ==
    IF m.connection_status \in {Connected, Stale}
       /\ IsSome(m.last_successful)
       /\ t - Unwrap(m.last_successful) >= STALE_AFTER
    THEN [m EXCEPT !.connection_status = Stale]
    ELSE m

\* connection_status after check_staleness at time t
StalenessChecked(m, t) ==
    IF m.connection_status \in {Connected, Stale}
       /\ IsSome(m.last_successful)
       /\ t - Unwrap(m.last_successful) > STALE_AFTER
    THEN [m EXCEPT !.connection_status = Stale]
    ELSE m

CheckStaleness ==
    /\ pc = "idle"
    /\ metrics' = StalenessChecked(metrics, now)
    /\ UNCHANGED <<tx_client, pc, status, fetch_range, now, prior_history, calls, evicted>>

\* ---------------------------------------------------------------- the node's answers
Hx(digits) == <<"0", "x">> \o digits

Heads == 0..MaxHead

ChainIdResults == {Err, Ok(1)}

BlockNumberResults == {Err} \cup {Ok(n) : n \in Heads}

\* get_block_by_number(num): the block of that number, or a failure
BlockResults(num) == {Err, Ok([number |-> num, timestamp |-> num + 1])}

\* The answers the node can give to the request the backfill loop makes next.
PendingBlockResults == IF fetch_range = <<>> THEN {} ELSE BlockResults(Head(fetch_range))

GasPriceResults == {Err, Ok(7)}

FeeSample ==
    [oldest_block     |-> Hx(<<"5">>),
     base_fee_per_gas |-> <<Hx(<<"8">>), Hx(<<"c">>), Hx(<<"a">>)>>,
     gas_used_ratio   |-> <<1, 3>>,
     reward           |-> << <<Hx(<<"1">>), Hx(<<"2">>), Hx(<<"3">>), Hx(<<"4">>), Hx(<<"5">>)>>,
                             <<Hx(<<"2">>), Hx(<<"3">>), Hx(<<"4">>), Hx(<<"5">>), Hx(<<"6">>)>> >>]

FeeHistoryResults == {Err, Ok(FeeSample)}

PriorityFeeResults == {Err, Ok(2)}

\* ---------------------------------------------------------------- construction
\* Config, without rpc_url and block_delay_threshold (read by the renderer only)
Config(max_block_history, txpool_max_rows, txpool_fetch_list) ==
    [max_block_history |-> max_block_history,
     txpool_max_rows   |-> txpool_max_rows,
     txpool_fetch_list |-> txpool_fetch_list]

\* MetricsCollector::new: no tx-pool client
MetricsCollectorNew(cfg) ==
    /\ config = cfg
    /\ metrics = SignetMetricsNew(cfg.max_block_history)
    /\ tx_client = None
    /\ pc = "idle"
    /\ status = None
    /\ fetch_range = <<>>
    /\ prior_history = <<>>
    /\ calls = <<>>
    /\ evicted = {}

\* MetricsCollector::new_with_txpool with a tx-pool URL
MetricsCollectorNewWithTxpool(cfg) ==
    /\ config = cfg
    /\ metrics = SignetMetricsNew(cfg.max_block_history)
    /\ tx_client = Some(TxPoolClientNew(cfg.txpool_max_rows, cfg.txpool_fetch_list))
    /\ pc = "idle"
    /\ status = None
    /\ fetch_range = <<>>
    /\ prior_history = <<>>
    /\ calls = <<>>
    /\ evicted = {}

\* A collector on its own: nothing of main exists, every endpoint answers.
NoMain ==
    /\ main_pc = "none"
    /\ active = "host"
    /\ parked = None
    /\ refresh_interval = TickSecs
    /\ last_update = 0
    /\ hung = {}
    /\ head = None

\* a step of the collector, which leaves what main owns alone
Alone == UNCHANGED main_vars

\* ---------------------------------------------------------------- specification
\* One collector built by MetricsCollector::new, polled again and again, in
\* front of a node whose head moves freely within Heads and whose chain-id,
\* block-number and block requests can each fail.  Gas price, fee history and
\* the priority-fee suggestion always answer here; their failures are the
\* subject of SpecStatus.
Init ==
    /\ now = 0
    /\ \E cap \in 0..MaxHist : MetricsCollectorNew(Config(cap, 0, FALSE))
    /\ NoMain

Next ==
    \/ PollStart /\ Alone
    \/ \E res \in ChainIdResults : GetChainId(res) /\ Alone
    \/ \E res \in BlockNumberResults : GetBlockNumber(res) /\ Alone
    \/ \E res \in PendingBlockResults : GetBlockByNumber(res) /\ Alone
    \/ GetGasPrice(Ok(7)) /\ Alone
    \/ GetFeeHistory(Ok(FeeSample)) /\ Alone
    \/ GetMaxPriorityFeePerGas(Ok(2)) /\ Alone
    \/ Finish /\ Alone
    \/ PollReturn /\ Alone

Spec == Init /\ [][Next]_vars

\* ---------------------------------------------------------------- time
Tick ==
    /\ now + TickSecs <= MaxTicks * TickSecs
    /\ now' = now + TickSecs
    /\ UNCHANGED <<metrics, tx_client, pc, status, fetch_range, prior_history, calls, evicted>>

\* ---------------------------------------------------------------- status specification
\* A collector without tx-pool client in front of a node whose head stays at
\* block 1 and whose every call can fail, with the clock running and the
\* staleness check applied between polls.
InitStatus ==
    /\ now = 0
    /\ MetricsCollectorNew(Config(1, 0, FALSE))
    /\ NoMain

NextStatus ==
    \/ PollStart /\ Alone
    \/ \E res \in ChainIdResults : GetChainId(res) /\ Alone
    \/ \E res \in {Err, Ok(1)} : GetBlockNumber(res) /\ Alone
    \/ \E res \in PendingBlockResults : GetBlockByNumber(res) /\ Alone
    \/ \E res \in GasPriceResults : GetGasPrice(res) /\ Alone
    \/ \E res \in FeeHistoryResults : GetFeeHistory(res) /\ Alone
    \/ \E res \in PriorityFeeResults : GetMaxPriorityFeePerGas(res) /\ Alone
    \/ Finish /\ Alone
    \/ PollReturn /\ Alone
    \/ CheckStaleness /\ Alone
    \/ Tick /\ Alone

SpecStatus == InitStatus /\ [][NextStatus]_vars

\* ---------------------------------------------------------------- tx-pool specification
JsonArray(n) == [shape |-> "array", key |-> "", len |-> n]

JsonObject(k, n) == [shape |-> "object", key |-> k, len |-> n]

HttpResponse(success, is_json, json) ==
    [transport |-> "ok", success |-> success, is_json |-> is_json, json |-> json]

TransportFailure ==
    [transport |-> "failed", success |-> FALSE, is_json |-> FALSE, json |-> JsonArray(0)]

\* what a count endpoint can answer
CountResponses ==
    { TransportFailure,
      HttpResponse(FALSE, TRUE, JsonArray(1)),
      HttpResponse(TRUE, FALSE, JsonArray(0)),
      HttpResponse(TRUE, TRUE, JsonArray(1)),
      HttpResponse(TRUE, TRUE, JsonObject("items", 2)),
      HttpResponse(TRUE, TRUE, JsonObject("count", 3)) }

ListResponse(success, is_json, rows, cursor) ==
    [transport |-> "ok", success |-> success, is_json |-> is_json,
     transactions |-> rows, cursor |-> cursor]

ListTransportFailure ==
    [transport |-> "failed", success |-> FALSE, is_json |-> FALSE,
     transactions |-> <<>>, cursor |-> FALSE]

WireTx(id, from_ok) == [id |-> id, from_ok |-> from_ok]

\* the rows 1..n of the service, row MaxWireRows without a parsable sender
WireRows(n) == [i \in 1..n |-> WireTx(i, i # MaxWireRows)]

\* what the /transactions endpoint can answer
ListResponses ==
    { ListTransportFailure,
      ListResponse(FALSE, TRUE, WireRows(1), FALSE),
      ListResponse(TRUE, FALSE, <<>>, FALSE) }
    \cup { ListResponse(TRUE, TRUE, WireRows(n), n = MaxWireRows) : n \in 0..MaxWireRows }

PoolResponses ==
    [transactions : CountResponses, bundles : CountResponses,
     signed_orders : CountResponses, list : ListResponses]

\* A collector built by new_with_txpool in front of a node that is down, so
\* that every poll is the chain-id probe followed by the tx-pool fetch.
InitPool ==
    /\ now = 0
    /\ \E max_rows \in 0..MaxRows : \E fetch_list \in BOOLEAN :
           MetricsCollectorNewWithTxpool(Config(1, max_rows, fetch_list))
    /\ NoMain

NextPool ==
    \/ PollStart /\ Alone
    \/ GetChainId(Err) /\ Alone
    \/ Finish /\ Alone
    \/ \E r \in PoolResponses : FetchTxpool(r) /\ Alone
    \/ PollReturn /\ Alone

SpecPool == InitPool /\ [][NextPool]_vars

\* ---------------------------------------------------------------- fee specification
\* a reward entry that is not a hex quantity
BadHex == Hx(<<"g">>)

\* A reward row whose columns in `decodable` hold the hex quantities
\* base + 1 .. base + 5 and whose other columns hold BadHex.
RewardRow(decodable, base) ==
    [i \in 1..Len(FEE_HISTORY_PERCENTILES) |->
        IF i \in decodable THEN Hx(<<HexChars[base + i + 1]>>) ELSE BadHex]

\* A fee-history answer with two reward rows, the older one complete, the
\* newer one with the columns in `decodable` decodable.
FeeResponse(base_fee_per_gas, gas_used_ratio, decodable) ==
    [oldest_block     |-> Hx(<<"5">>),
     base_fee_per_gas |-> base_fee_per_gas,
     gas_used_ratio   |-> gas_used_ratio,
     reward           |-> <<RewardRow(1..Len(FEE_HISTORY_PERCENTILES), 5),
                            RewardRow(decodable, 0)>>]

\* Base-fee arrays with entries hex_to_u128 does not decode, with an entry
\* without the 0x prefix, and without entries.
OddBaseFees ==
    { <<Hx(<<"8">>), BadHex, Hx(<<"a">>)>>,
      <<Hx(<<"8">>), Hx(<<"c">>), BadHex>>,
      <<<<"8">>, Hx(<<"c">>)>>,
      <<BadHex>>,
      <<>> }

\* The fee-history answers of the node: with one gasUsedRatio entry per
\* reward row and three base fees, every pattern of decodable columns in the
\* newer row; for three of the patterns also a single base fee, and a
\* gasUsedRatio with fewer or more entries than there are reward rows; with
\* complete reward rows, the base-fee arrays of OddBaseFees and an oldest
\* block that is not hex.
FeeResponses ==
    { FeeResponse(<<Hx(<<"8">>), Hx(<<"c">>), Hx(<<"a">>)>>, <<1, 3>>, d) :
        d \in SUBSET (1..Len(FEE_HISTORY_PERCENTILES)) }
    \cup { FeeResponse(<<Hx(<<"8">>)>>, <<1, 3>>, d) : d \in {{}, {3}, {2, 4}} }
    \cup { FeeResponse(<<Hx(<<"8">>), Hx(<<"c">>), Hx(<<"a">>)>>, gur, d) :
             gur \in {<<>>, <<1>>, <<1, 3, 2>>}, d \in {{}, {3}, {2, 4}} }
    \cup { FeeResponse(bf, <<1, 3>>, 1..Len(FEE_HISTORY_PERCENTILES)) : bf \in OddBaseFees }
    \cup { [FeeResponse(<<Hx(<<"8">>), Hx(<<"c">>), Hx(<<"a">>)>>, <<1, 3>>,
                         1..Len(FEE_HISTORY_PERCENTILES)) EXCEPT !.oldest_block = BadHex] }

\* A collector without tx-pool client in front of a node that always answers
\* and whose head stays at block 1; the fee-history answer is any of
\* FeeResponses, or a failure.
InitFee ==
    /\ now = 0
    /\ MetricsCollectorNew(Config(1, 0, FALSE))
    /\ NoMain

NextFee ==
    \/ PollStart /\ Alone
    \/ GetChainId(Ok(1)) /\ Alone
    \/ GetBlockNumber(Ok(1)) /\ Alone
    \/ \E res \in PendingBlockResults : GetBlockByNumber(res) /\ Alone
    \/ GetGasPrice(Ok(7)) /\ Alone
    \/ \E res \in {Err} \cup {Ok(h) : h \in FeeResponses} : GetFeeHistory(res) /\ Alone
    \/ GetMaxPriorityFeePerGas(Ok(2)) /\ Alone
    \/ Finish /\ Alone
    \/ PollReturn /\ Alone

SpecFee == InitFee /\ [][NextFee]_vars

\* ---------------------------------------------------------------- node and tx-pool specification
\* the service unreachable on all four endpoints
PoolDown ==
    [transactions |-> TransportFailure, bundles |-> TransportFailure,
     signed_orders |-> TransportFailure, list |-> ListTransportFailure]

\* the service answering all four endpoints
PoolUp ==
    [transactions |-> HttpResponse(TRUE, TRUE, JsonArray(1)),
     bundles |-> HttpResponse(TRUE, TRUE, JsonObject("items", 2)),
     signed_orders |-> HttpResponse(TRUE, TRUE, JsonArray(1)),
     list |-> ListResponse(TRUE, TRUE, WireRows(2), FALSE)]

\* the counts unreachable, the list answering
PoolPartial == [PoolDown EXCEPT !.list = ListResponse(TRUE, TRUE, WireRows(2), FALSE)]

PoolOutcomes == {PoolDown, PoolUp, PoolPartial}

\* A collector built by new_with_txpool in front of a node whose liveness
\* calls can each fail and a tx-pool service that is down, up or partly up,
\* with the clock running.
InitBoth ==
    /\ now = 0
    /\ MetricsCollectorNewWithTxpool(Config(1, MaxRows, TRUE))
    /\ NoMain

NextBoth ==
    \/ PollStart /\ Alone
    \/ \E res \in ChainIdResults : GetChainId(res) /\ Alone
    \/ \E res \in {Err, Ok(1)} : GetBlockNumber(res) /\ Alone
    \/ \E res \in PendingBlockResults : GetBlockByNumber(res) /\ Alone
    \/ \E res \in GasPriceResults : GetGasPrice(res) /\ Alone
    \/ GetFeeHistory(Ok(FeeSample)) /\ Alone
    \/ GetMaxPriorityFeePerGas(Ok(2)) /\ Alone
    \/ Finish /\ Alone
    \/ \E r \in PoolOutcomes : FetchTxpool(r) /\ Alone
    \/ PollReturn /\ Alone
    \/ Tick /\ Alone

SpecBoth == InitBoth /\ [][NextBoth]_vars

\* ---------------------------------------------------------------- main
\* main builds a host and a rollup collector from the same command-line
\* values and drives both from one loop.  Every `.await` is in main's own
\* task, so at most one collector is inside collect_metrics at a time: the
\* collector variables hold the one main is calling (`active`), `parked`
\* holds the metrics of the other.
Collectors == {"host", "rollup"}

\* the values of cli.refresh_interval: below STALE_AFTER, and far enough
\* above it for a snapshot to pass the threshold between two refreshes
RefreshIntervals == {TickSecs, 2 * STALE_AFTER}

\* the positions of main at which it awaits collect_metrics
PollPositions == {"prime_host", "prime_rollup", "poll_host", "poll_rollup"}

\* the collector a poll or staleness position of main operates on
Target(p) == IF p \in {"prime_host", "poll_host", "stale_host"} THEN "host" ELSE "rollup"

\* the statement of main that follows an awaited collect_metrics
AfterPoll(p) ==
    CASE p = "prime_host" -> "prime_rollup"
      [] p = "prime_rollup" -> "mark_primed"
      [] p = "poll_host" -> "poll_rollup"
      [] p = "poll_rollup" -> "mark"
      [] OTHER -> p

\* the metrics get_metrics() returns for a collector
MetricsOf(c) == IF active = c THEN metrics ELSE Unwrap(parked)

\* InPoll for a collector polled from a task of its own, whatever main does
InPoll_Background == main_pc # "done"

\* main is at `<collector>.collect_metrics().await` and the collector
\* variables are that collector's
InPoll == main_pc \in PollPositions /\ active = Target(main_pc)

\* the endpoint of the collector being polled answers its calls
Answering == active \notin hung

\* the positions of collect_metrics at which it awaits the node
RpcAwaits == {"get_chain_id", "get_block_number", "get_block_by_number", "get_gas_price",
              "get_fee_history", "get_max_priority_fee_per_gas"}

\* main turns to the other collector object: `rollup_collector.` after
\* `host_collector.` and back
Switch ==
    /\ main_pc \in PollPositions
    /\ active # Target(main_pc)
    /\ pc = "idle"
    /\ active' = Target(main_pc)
    /\ metrics' = Unwrap(parked)
    /\ parked' = Some(metrics)
    /\ UNCHANGED <<tx_client, pc, status, fetch_range, now, prior_history, calls, evicted,
                   config, refresh_interval, main_pc, last_update, hung, head>>

\* collect_metrics returns to main
PollReturned ==
    /\ InPoll
    /\ PollReturn
    /\ main_pc' = AfterPoll(main_pc)
    /\ UNCHANGED <<config, refresh_interval, active, parked, last_update, hung, head>>

\* last_update = Instant::now(), after priming and after each refresh
Mark ==
    /\ main_pc \in {"mark_primed", "mark"}
    /\ last_update' = now
    /\ main_pc' = IF main_pc = "mark_primed" THEN "loop" ELSE "stale_host"
    /\ UNCHANGED <<metrics, tx_client, pc, status, fetch_range, now, prior_history, calls,
                   evicted, config, refresh_interval, active, parked, hung, head>>

\* if last_update.elapsed() >= refresh_interval
LoopTop ==
    /\ main_pc = "loop"
    /\ main_pc' = IF now - last_update >= refresh_interval THEN "poll_host" ELSE "stale_host"
    /\ UNCHANGED <<metrics, tx_client, pc, status, fetch_range, now, prior_history, calls,
                   evicted, config, refresh_interval, active, parked, last_update, hung, head>>

\* MainCheckStaleness that checks only the collector main polled last
MainCheckStaleness_PolledLast ==
    /\ main_pc \in {"stale_host", "stale_rollup"}
    /\ main_pc' = IF main_pc = "stale_host" THEN "stale_rollup" ELSE "render"
    /\ IF active = Target(main_pc)
       THEN CheckStaleness /\ parked' = parked
       ELSE UNCHANGED <<metrics, tx_client, pc, status, fetch_range, now, prior_history,
                        calls, evicted, parked>>
    /\ UNCHANGED <<config, refresh_interval, active, last_update, hung, head>>

\* host_collector.check_staleness(); rollup_collector.check_staleness()
MainCheckStaleness ==
    /\ main_pc \in {"stale_host", "stale_rollup"}
    /\ main_pc' = IF main_pc = "stale_host" THEN "stale_rollup" ELSE "render"
    /\ IF active = Target(main_pc)
       THEN CheckStaleness /\ parked' = parked
       ELSE /\ parked' = Some(StalenessChecked(Unwrap(parked), now))
            /\ UNCHANGED <<metrics, tx_client, pc, status, fetch_range, now, prior_history,
                           calls, evicted>>
    /\ UNCHANGED <<config, refresh_interval, active, last_update, hung, head>>

\* get_metrics() on both collectors and terminal.draw
Render ==
    /\ main_pc = "render"
    /\ main_pc' = "input"
    /\ UNCHANGED <<metrics, tx_client, pc, status, fetch_range, now, prior_history, calls,
                   evicted, config, refresh_interval, active, parked, last_update, hung, head>>

\* event::poll / event::read: `q` or Esc leaves the loop
Input(quit) ==
    /\ main_pc = "input"
    /\ main_pc' = IF quit THEN "done" ELSE "sleep"
    /\ UNCHANGED <<metrics, tx_client, pc, status, fetch_range, now, prior_history, calls,
                   evicted, config, refresh_interval, active, parked, last_update, hung, head>>

\* time::sleep: the clock may have moved on by a tick when main wakes up
Sleep(ticks) ==
    /\ main_pc = "sleep"
    /\ main_pc' = "loop"
    /\ now + ticks * TickSecs <= MaxTicks * TickSecs
    /\ now' = now + ticks * TickSecs
    /\ UNCHANGED <<metrics, tx_client, pc, status, fetch_range, prior_history, calls,
                   evicted, config, refresh_interval, active, parked, last_update, hung, head>>

\* An endpoint stops answering: from now on its calls never return.
Hang(c) ==
    /\ hung = {}
    /\ hung' = {c}
    /\ UNCHANGED <<metrics, tx_client, pc, status, fetch_range, now, prior_history, calls,
                   evicted, config, refresh_interval, main_pc, active, parked, last_update, head>>

\* Time passes while main awaits a call that never returns.  A call to an
\* endpoint that answers returns within the tick it was made in.
HungWait ==
    /\ InPoll
    /\ ~Answering
    /\ pc \in RpcAwaits
    /\ Tick
    /\ Alone

\* ---------------------------------------------------------------- main specification
\* The two collectors of main, each in front of a node whose chain-id probe
\* can fail and whose other calls answer, and of a tx-pool service that is up;
\* the refresh interval is shorter or longer than STALE_AFTER.
InitMain ==
    /\ now = 0
    /\ MetricsCollectorNewWithTxpool(Config(1, MaxRows, TRUE))
    /\ main_pc = "prime_host"
    /\ active = "host"
    /\ parked = Some(SignetMetricsNew(1))
    /\ refresh_interval \in RefreshIntervals
    /\ last_update = 0
    /\ hung = {}
    /\ head = None

NextMain ==
    \/ InPoll /\ PollStart /\ Alone
    \/ \E res \in ChainIdResults : InPoll /\ Answering /\ GetChainId(res) /\ Alone
    \/ InPoll /\ Answering /\ GetBlockNumber(Ok(1)) /\ Alone
    \/ \E res \in PendingBlockResults : InPoll /\ Answering /\ GetBlockByNumber(res) /\ Alone
    \/ InPoll /\ Answering /\ GetGasPrice(Ok(7)) /\ Alone
    \/ InPoll /\ Answering /\ GetFeeHistory(Ok(FeeSample)) /\ Alone
    \/ InPoll /\ Answering /\ GetMaxPriorityFeePerGas(Ok(2)) /\ Alone
    \/ InPoll /\ Finish /\ Alone
    \/ InPoll /\ FetchTxpool(PoolUp) /\ Alone
    \/ PollReturned
    \/ Switch
    \/ Mark
    \/ LoopTop
    \/ MainCheckStaleness
    \/ Render
    \/ \E quit \in BOOLEAN : Input(quit)
    \/ \E ticks \in {0, 1} : Sleep(ticks)
    \/ \E c \in Collectors : Hang(c)
    \/ HungWait

SpecMain == InitMain /\ [][NextMain]_vars

\* ---------------------------------------------------------------- fee amounts over the whole range
\* the two-digit hex quantity of a value below 256
HexOf(v) == Hx(<<HexChars[(v \div 16) + 1], HexChars[(v % 16) + 1]>>)

\* A fee-history answer for one block: the base fees given, and a reward row
\* whose five percentiles all hold the same value.
TierResponse(base_fee_per_gas, reward_value) ==
    [oldest_block     |-> Hx(<<"5">>),
     base_fee_per_gas |-> base_fee_per_gas,
     gas_used_ratio   |-> <<1>>,
     reward           |-> << [i \in 1..Len(FEE_HISTORY_PERCENTILES) |-> reward_value] >>]

\* The answers of the node.  First, the block's base fee alone or followed
\* by the next block's, from zero to the largest u128, with a reward row that
\* does not decode or decodes to a priority fee from zero to the largest
\* u128.  Then a reward row of 1 with a base-fee history, the next block's
\* fee last: rising, falling, level, all zero, and level but for one unit at
\* a size where f64 has no odd values.
TierResponses ==
    { TierResponse(bf, rv) :
        bf \in {<<HexOf(8)>>} \cup { <<HexOf(8), HexOf(n)>> : n \in {0, 1, 200, 255} },
        rv \in {BadHex} \cup { HexOf(p) : p \in {0, 1, 15, 17, 100, 128, 255} } }
    \cup { TierResponse([i \in 1..Len(b) |-> HexOf(b[i])], HexOf(1)) :
             b \in { <<10, 20, 3>>, <<20, 10, 3>>, <<10, 10, 10, 3>>, <<0, 0, 5>>, <<0, 9>>,
                     <<16, 16, 17, 0>>, <<200, 255, 1>> } }

InitTier ==
    /\ now = 0
    /\ MetricsCollectorNew(Config(1, 0, FALSE))
    /\ NoMain

NextTier ==
    \/ PollStart /\ Alone
    \/ GetChainId(Ok(1)) /\ Alone
    \/ GetBlockNumber(Ok(1)) /\ Alone
    \/ \E res \in PendingBlockResults : GetBlockByNumber(res) /\ Alone
    \/ GetGasPrice(Ok(7)) /\ Alone
    \/ \E h \in TierResponses : GetFeeHistory(Ok(h)) /\ Alone
    \/ GetMaxPriorityFeePerGas(Ok(2)) /\ Alone
    \/ Finish /\ Alone
    \/ PollReturn /\ Alone

SpecTier == InitTier /\ [][NextTier]_vars

\* ---------------------------------------------------------------- every call of a poll
\* A collector built by new_with_txpool in front of a node whose head is
\* block 1 or block 3 and whose every call can fail, and of a tx-pool service
\* that is down or up.
InitCalls ==
    /\ now = 0
    /\ MetricsCollectorNewWithTxpool(Config(1, 1, TRUE))
    /\ NoMain

NextCalls ==
    \/ PollStart /\ Alone
    \/ \E res \in ChainIdResults : GetChainId(res) /\ Alone
    \/ \E res \in {Err, Ok(1), Ok(3)} : GetBlockNumber(res) /\ Alone
    \/ \E res \in PendingBlockResults : GetBlockByNumber(res) /\ Alone
    \/ \E res \in GasPriceResults : GetGasPrice(res) /\ Alone
    \/ \E res \in FeeHistoryResults : GetFeeHistory(res) /\ Alone
    \/ \E res \in PriorityFeeResults : GetMaxPriorityFeePerGas(res) /\ Alone
    \/ Finish /\ Alone
    \/ \E r \in {PoolDown, PoolUp} : FetchTxpool(r) /\ Alone
    \/ PollReturn /\ Alone

SpecCalls == InitCalls /\ [][NextCalls]_vars

\* ---------------------------------------------------------------- a chain that stops
\* The node follows one chain whose head only grows, and which may stop for
\* good at some number. Every call succeeds and eth_blockNumber answers the
\* head of the moment.
Chain(num, fixed) == [num |-> num, fixed |-> fixed]

Fixed == IsSome(head) /\ Unwrap(head).fixed

\* a new block: the head grows by one
Produce ==
    /\ IsSome(head)
    /\ ~Unwrap(head).fixed
    /\ Unwrap(head).num < MaxHead
    /\ head' = Some(Chain(Unwrap(head).num + 1, FALSE))
    /\ UNCHANGED <<metrics, tx_client, pc, status, fetch_range, now, prior_history, calls,
                   evicted, config, refresh_interval, main_pc, active, parked, last_update, hung>>

\* the chain stops at its present head
Stop ==
    /\ IsSome(head)
    /\ ~Unwrap(head).fixed
    /\ head' = Some(Chain(Unwrap(head).num, TRUE))
    /\ UNCHANGED <<metrics, tx_client, pc, status, fetch_range, now, prior_history, calls,
                   evicted, config, refresh_interval, main_pc, active, parked, last_update, hung>>

\* the answers of the node of this chain
HeadBlockNumberResult == Ok(Unwrap(head).num)

HeadBlockResults == { res \in PendingBlockResults : res.ok }

\* a fee-history answer with the oldest block alone: the three arrays are
\* absent from it and take their `#[serde(default)]`, the empty vector
BareFeeHistory ==
    [oldest_block     |-> Hx(<<"5">>),
     base_fee_per_gas |-> <<>>,
     gas_used_ratio   |-> <<>>,
     reward           |-> <<>>]

InitHead ==
    /\ now = 0
    /\ \E cap \in 1..MaxHist : MetricsCollectorNew(Config(cap, 0, FALSE))
    /\ main_pc = "none"
    /\ active = "host"
    /\ parked = None
    /\ refresh_interval = TickSecs
    /\ last_update = 0
    /\ hung = {}
    /\ head = Some(Chain(0, FALSE))

\* the steps of collect_metrics against this node
PollHead ==
    \/ PollStart /\ Alone
    \/ GetChainId(Ok(1)) /\ Alone
    \/ GetBlockNumber(HeadBlockNumberResult) /\ Alone
    \/ \E res \in HeadBlockResults : GetBlockByNumber(res) /\ Alone
    \/ GetGasPrice(Ok(7)) /\ Alone
    \/ GetFeeHistory(Ok(BareFeeHistory)) /\ Alone
    \/ GetMaxPriorityFeePerGas(Ok(2)) /\ Alone
    \/ Finish /\ Alone
    \/ PollReturn /\ Alone

NextHead ==
    \/ Produce
    \/ Stop
    \/ PollHead

\* main's loop polls again every refresh interval and every call of a poll
\* returns, so the steps of the poll are never postponed for ever
SpecHead == InitHead /\ [][NextHead]_vars /\ WF_vars(PollHead)

\* ---------------------------------------------------------------- reading the call log
Called(method) == \E i \in 1..Len(calls) : calls[i].method = method

Succeeded(method) == \E i \in 1..Len(calls) : calls[i].method = method /\ calls[i].ok

Failed(method) == \E i \in 1..Len(calls) : calls[i].method = method /\ ~calls[i].ok

IsBlockCall(c) == c.method = "get_block_by_number"

IsFetchedBlock(c) == c.method = "get_block_by_number" /\ c.ok

\* the block numbers requested by the running poll, in request order
RequestedNumbers ==
    LET bc == SelectSeq(calls, IsBlockCall) IN [i \in 1..Len(bc) |-> Unwrap(bc[i].arg)]

\* the block numbers whose fetch succeeded in the running poll, in request order
FetchedNumbers ==
    LET bc == SelectSeq(calls, IsFetchedBlock) IN [i \in 1..Len(bc) |-> Unwrap(bc[i].arg)]

Range(q) == {q[i] : i \in 1..Len(q)}

StrictlyDescending(q) == \A i \in 1..(Len(q) - 1) : q[i] > q[i + 1]

PollDone == pc = "return"

\* The running poll started with a non-empty history and the node reported a
\* head above the front entry of that history.
GapPoll ==
    /\ prior_history # <<>>
    /\ Succeeded("get_block_number")
    /\ Unwrap(metrics.block_number) > prior_history[1].number

LastRecorded == prior_history[1].number

LatestNum == Unwrap(metrics.block_number)

\* ---------------------------------------------------------------- block history claims
\* C1: after every poll the history is strictly descending by block number
\* from front to back, so no number appears twice.
C1_Ordering == PollDone => StrictlyDescending(Numbers(metrics.block_history))

\* C2: the history never holds more than max_block_history entries, in the
\* initial state and after every poll, for every configured bound (0 included).
C2_HistoryBound == Len(metrics.block_history) <= metrics.max_block_history

\* C2 witness: a finished poll that evicted an entry and left the history full.
C2_Witness ==
    /\ PollDone
    /\ evicted # {}
    /\ metrics.max_block_history >= 1
    /\ Len(metrics.block_history) = metrics.max_block_history

\* C3: after a poll over a gap in which every block fetch succeeded, the
\* history is the fetched numbers in descending order followed by the prior
\* history, truncated at the back to max_block_history.
C3_BackfillResult ==
    (PollDone /\ GapPoll /\ FetchedNumbers = RequestedNumbers)
    => /\ StrictlyDescending(FetchedNumbers)
       /\ Numbers(metrics.block_history) =
              Truncate(FetchedNumbers \o Numbers(prior_history), metrics.max_block_history)

\* C4: over a gap of K > 0 numbers above the front entry, the numbers requested
\* are exactly the min(K, MAX_BACKFILL_PER_CYCLE) highest of the gap, each once.
C4_BackfillCap ==
    (PollDone /\ GapPoll)
    => LET K == LatestNum - LastRecorded
       IN  /\ Range(RequestedNumbers) =
                  {n \in (LastRecorded + 1)..LatestNum :
                       n > LatestNum - Min(K, MAX_BACKFILL_PER_CYCLE)}
           /\ Len(RequestedNumbers) = Min(K, MAX_BACKFILL_PER_CYCLE)

\* C4 witness: a finished poll over a gap wider than the cap.
C4_Witness ==
    /\ PollDone
    /\ GapPoll
    /\ LatestNum - LastRecorded > MAX_BACKFILL_PER_CYCLE
    /\ Len(RequestedNumbers) = MAX_BACKFILL_PER_CYCLE

\* C5: after a poll, every number still in the history is greater than every
\* number the poll evicted.
C5_EvictOldest ==
    PollDone => \A e \in evicted : \A i \in 1..Len(metrics.block_history) :
                    metrics.block_history[i].number > e

\* ---------------------------------------------------------------- status claims
IsError(st) == IsSome(st) /\ Unwrap(st).tag = "Error"

\* C6: within one poll the tentative status never goes from Error back to
\* Connected.
C6_StatusMonotone == [][IsError(status) => ~IsConnected(status')]_vars

\* C6 witness: a poll whose status was demoted by the gas-price stage and which
\* went on to run the later stages.
C6_Witness ==
    /\ PollDone
    /\ status = Some(Error("Gas price"))
    /\ Succeeded("get_fee_history")
    /\ Succeeded("get_max_priority_fee_per_gas")

\* C7: check_staleness changes connection_status only from Connected to Stale,
\* and connection_status becomes Connected only where a poll publishes its
\* final status.
C7_StalenessOneWay ==
    [][ /\ CheckStaleness =>
            \/ metrics'.connection_status = metrics.connection_status
            \/ /\ metrics.connection_status = Connected
               /\ metrics'.connection_status = Stale
        /\ (metrics'.connection_status = Connected /\ metrics.connection_status # Connected)
               => (pc = "finish" /\ IsConnected(status)) ]_vars

\* C7 witness: the staleness check has demoted a collector that was Connected.
C7_Witness ==
    /\ pc = "idle"
    /\ metrics.connection_status = Stale
    /\ now - Unwrap(metrics.last_successful) > STALE_AFTER

\* the snapshot fields fed by the block, gas and fee stages
RpcFields(m) ==
    <<m.chain_id, m.block_number, m.gas_price, m.block_history, m.latest_block_timestamp,
      m.base_fee_per_gas, m.next_base_fee_per_gas, m.max_priority_fee_suggested,
      m.suggested_fees, m.fee_history, m.gas_utilization_ma_n, m.gas_volatility_5m>>

ChainIdFailed == status = Some(Error("Chain ID"))

\* C8: when get_chain_id fails the status becomes Error("Chain ID: ..."), no
\* other RPC call is made in that poll and the RPC-fed fields keep their
\* pre-poll values.
C8_ChainIdFailure ==
    /\ [](Failed("get_chain_id") =>
            /\ ChainIdFailed
            /\ \A i \in 1..Len(calls) :
                   calls[i].method \in {"get_chain_id", "fetch_metrics"}
            /\ PollDone => metrics.connection_status = Error("Chain ID"))
    /\ [][(ChainIdFailed \/ ChainIdFailed') => RpcFields(metrics') = RpcFields(metrics)]_vars

\* C8 witness: a poll whose chain-id probe failed has finished on a collector
\* that holds values from earlier polls.
C8_Witness ==
    /\ PollDone
    /\ Failed("get_chain_id")
    /\ IsSome(metrics.gas_price)
    /\ IsSome(metrics.block_number)
    /\ IsSome(metrics.suggested_fees)
    /\ metrics.block_history # <<>>

\* C9: when get_fee_history fails in a poll whose chain id, block number and
\* gas price succeeded, the fee-derived fields are absent after the poll, the
\* status is Connected and last_successful is the time of the poll.
C9_FeeHistoryFailure ==
    ( /\ PollDone
      /\ Succeeded("get_chain_id")
      /\ Succeeded("get_block_number")
      /\ Succeeded("get_gas_price")
      /\ Failed("get_fee_history") )
    => /\ metrics.suggested_fees = None
       /\ metrics.fee_history = None
       /\ metrics.base_fee_per_gas = None
       /\ metrics.next_base_fee_per_gas = None
       /\ metrics.gas_utilization_ma_n = None
       /\ metrics.gas_volatility_5m = None
       /\ metrics.connection_status = Connected
       /\ metrics.last_successful = Some(metrics.last_updated)

\* C9 witness: such a poll has finished, later than the collector was built.
C9_Witness ==
    /\ PollDone
    /\ Succeeded("get_gas_price")
    /\ Failed("get_fee_history")
    /\ metrics.last_updated > 0
    /\ metrics.connection_status = Connected

\* ---------------------------------------------------------------- tx-pool claims
\* the responses the finished poll's tx-pool fetch received
PoolFetched == PollDone /\ Called("fetch_metrics")

Responses == Unwrap(calls[Len(calls)].arg)

CountErrored(resp) == resp.transport = "failed"

ListErrored(resp) ==
    Unwrap(tx_client).fetch_list /\ (resp.transport = "failed" \/ ~resp.success \/ ~resp.is_json)

AnySubFetchErrored(r) ==
    \/ CountErrored(r.transactions)
    \/ CountErrored(r.bundles)
    \/ CountErrored(r.signed_orders)
    \/ ListErrored(r.list)

PartialData(tp) ==
    \/ IsSome(tp.transactions_cache)
    \/ IsSome(tp.bundles_cache)
    \/ IsSome(tp.signed_orders_cache)
    \/ tp.transactions # <<>>

CountResult(resp) == IF resp.success /\ resp.is_json THEN count_items(resp.json) ELSE None

\* the rows of a page that carry a parsable sender, in page order
DecodableRows(rows) == SelectSeq(rows, LAMBDA w : w.from_ok)

\* C11: the snapshot's error field is set exactly when some sub-fetch
\* errored, and every sub-fetch that did not error has its result in the
\* snapshot: a count endpoint its count, the list endpoint its rows and its
\* cursor flag, whatever the other sub-fetches did.
C11_ErrorAndPartialResults ==
    PoolFetched =>
        LET tp == Unwrap(metrics.txpool)
            r == Responses
            cap == Unwrap(tx_client).max_rows
            rows == DecodableRows(r.list.transactions)
        IN  /\ IsSome(tp.error) <=> AnySubFetchErrored(r)
            /\ ~CountErrored(r.transactions) => tp.transactions_cache = CountResult(r.transactions)
            /\ ~CountErrored(r.bundles) => tp.bundles_cache = CountResult(r.bundles)
            /\ ~CountErrored(r.signed_orders) => tp.signed_orders_cache = CountResult(r.signed_orders)
            /\ (Unwrap(tx_client).fetch_list /\ ~ListErrored(r.list)) =>
                   /\ Len(tp.transactions) = Min(Len(rows), cap)
                   /\ \A i \in 1..Len(tp.transactions) : tp.transactions[i] = rows[i].id
                   /\ tp.has_more = r.list.cursor

\* C11 witness: the three count endpoints are unreachable, the list call
\* delivers two rows; the snapshot has the error set and both rows.
C11_Witness ==
    /\ PoolFetched
    /\ CountErrored(Responses.transactions)
    /\ CountErrored(Responses.bundles)
    /\ CountErrored(Responses.signed_orders)
    /\ ~ListErrored(Responses.list)
    /\ Len(Unwrap(metrics.txpool).transactions) = 2
    /\ IsSome(Unwrap(metrics.txpool).error)

\* ---------------------------------------------------------------- poll and tx-pool
PoolFetches == {i \in 1..Len(calls) : calls[i].method = "fetch_metrics"}

\* C12: with a tx-pool client configured, a finished poll has made exactly one
\* tx-pool fetch whatever the node answered, and the step that takes the
\* tx-pool outcome leaves connection_status and last_successful as the node's
\* answers set them, so that both are the same for every tx-pool outcome.
C12_PoolIndependent ==
    /\ []((PollDone /\ IsSome(tx_client)) =>
             /\ Cardinality(PoolFetches) = 1
             /\ metrics.connection_status = Unwrap(status))
    /\ [][pc = "fetch_metrics" =>
             /\ metrics'.connection_status = metrics.connection_status
             /\ metrics'.last_successful = metrics.last_successful]_vars

\* C12 witness: the chain-id probe failed, the tx-pool fetch was made all the
\* same and answered in full, and the status is the chain-id error.
C12_Witness ==
    /\ PollDone
    /\ Failed("get_chain_id")
    /\ Cardinality(PoolFetches) = 1
    /\ Unwrap(metrics.txpool).healthy
    /\ IsError(Some(metrics.connection_status))
    /\ IsSome(metrics.last_successful)

\* ---------------------------------------------------------------- timestamps of a poll
\* C13: the step of a poll that publishes the status sets last_updated to the
\* clock reading of that moment, and last_successful to the same reading if
\* the final status is Connected and to its previous value otherwise; no
\* other step changes either, so both stand as set when the poll returns.
C13_PollTimestamps ==
    /\ [][(pc = "finish" /\ pc' # "finish") =>
             /\ metrics'.last_updated = now
             /\ metrics'.connection_status = Unwrap(status)
             /\ metrics'.last_successful =
                    IF metrics'.connection_status = Connected
                    THEN Some(metrics'.last_updated)
                    ELSE metrics.last_successful]_vars
    /\ [][~(pc = "finish" /\ pc' # "finish") =>
             /\ metrics'.last_updated = metrics.last_updated
             /\ metrics'.last_successful = metrics.last_successful]_vars

\* C13 witness: a poll that ended in Error after an earlier successful one;
\* last_updated is this poll's time, last_successful the earlier one's.
C13_Witness ==
    /\ PollDone
    /\ IsError(status)
    /\ metrics.connection_status = Unwrap(status)
    /\ IsSome(metrics.last_successful)
    /\ Unwrap(metrics.last_successful) < metrics.last_updated

\* ---------------------------------------------------------------- fee tiers
\* the fee-history answer the finished poll received
FeeFetched == PollDone /\ Succeeded("get_fee_history")

FetchedFeeResponse ==
    LET i == CHOOSE j \in 1..Len(calls) : calls[j].method = "get_fee_history"
    IN  Unwrap(calls[i].arg)

\* the value of percentile p in a reward row, if the row has a decodable one
RowValue(row, p) ==
    LET col == CHOOSE i \in 1..Len(FEE_HISTORY_PERCENTILES) : FEE_HISTORY_PERCENTILES[i] = p
    IN  IF Len(row) >= col THEN hex_to_u128(row[col]) ELSE None

\* the first of a sequence of optional values that is present
RECURSIVE FirstAvailable(_)
FirstAvailable(opts) ==
    IF opts = <<>> THEN None
    ELSE IF IsSome(opts[1]) THEN opts[1]
    ELSE FirstAvailable(Tail(opts))

\* the priority fee a tier reports: its pick, or 0 when it has none
TierPriority(pick) == IF IsSome(pick) THEN Unwrap(pick) ELSE 0

\* C14: with the next base fee known, the tiers' priority fees are read from
\* the last reward row of the answer: safe is the first available of the
\* 25th, 10th and 50th percentile, standard the 50th or else safe's pick,
\* fast the first available of the 75th and 90th or else standard's pick; a
\* last row with only the 50th decodable gives all three tiers that value.
C14_TierFallback ==
    (FeeFetched /\ IsSome(metrics.next_base_fee_per_gas)) =>
        LET h == FetchedFeeResponse
            row == h.reward[Len(h.reward)]
            safe == FirstAvailable(<<RowValue(row, 25), RowValue(row, 10), RowValue(row, 50)>>)
            std == FirstAvailable(<<RowValue(row, 50), safe>>)
            fast == FirstAvailable(<<RowValue(row, 75), RowValue(row, 90), std>>)
            fees == Unwrap(metrics.suggested_fees)
        IN  /\ fees.safe.max_priority_fee_per_gas = TierPriority(safe)
            /\ fees.standard.max_priority_fee_per_gas = TierPriority(std)
            /\ fees.fast.max_priority_fee_per_gas = TierPriority(fast)

\* ---------------------------------------------------------------- main loop
\* C15: once one endpoint has stopped answering, the collector of the other
\* endpoint still completes a poll in every refresh interval: its snapshot
\* is never older than the refresh interval.
C15_HangIsolated ==
    \A c \in Collectors :
        (hung # {} /\ c \notin hung) => now - MetricsOf(c).last_updated <= refresh_interval

\* C16: when main renders, the collector it called last is not inside
\* collect_metrics, and the metrics of the other collector were set aside,
\* and are touched, only between polls: both snapshots passed to the
\* renderer are as a completed poll left them, but for check_staleness.
C16_RenderBetweenPolls ==
    /\ [](main_pc = "render" => (pc = "idle" /\ status = None))
    /\ [][parked' # parked => (pc = "idle" /\ pc' = "idle")]_vars

\* C16 witness: main renders after a refresh in which the host poll ended
\* Connected and the rollup poll in Error.
C16_Witness ==
    /\ main_pc = "render"
    /\ now > 0
    /\ MetricsOf("host").last_updated = now
    /\ MetricsOf("host").connection_status = Connected
    /\ MetricsOf("rollup").last_updated = now
    /\ IsError(Some(MetricsOf("rollup").connection_status))

\* ---------------------------------------------------------------- row cap
\* C17: after any fetch the snapshot's transaction list holds at most
\* txpool_max_rows entries, for every configured txpool_max_rows, 0 included.
C17_RowCap ==
    IsSome(metrics.txpool) =>
        Len(Unwrap(metrics.txpool).transactions) <= config.txpool_max_rows

\* ---------------------------------------------------------------- latest block timestamp
\* C18: no step lowers or clears latest_block_timestamp, and the step that
\* fetches a block leaves it at or above that block's timestamp; so it is at
\* least the timestamp of every block fetched so far, whatever the order of
\* the fetches and whether or not the block is still in the history.
C18_TimestampMax ==
    [][/\ IsSome(metrics.latest_block_timestamp) =>
             /\ IsSome(metrics'.latest_block_timestamp)
             /\ Unwrap(metrics'.latest_block_timestamp) >= Unwrap(metrics.latest_block_timestamp)
       /\ \A res \in PendingBlockResults :
             (res.ok /\ GetBlockByNumber(res)) =>
                 /\ IsSome(metrics'.latest_block_timestamp)
                 /\ Unwrap(metrics'.latest_block_timestamp) >= Value(res).timestamp]_vars

\* C18 witness: a block older than the newest one seen was just fetched, and
\* the block the latest timestamp came from is no longer in the history.
C18_Witness ==
    /\ calls # <<>>
    /\ IsFetchedBlock(calls[Len(calls)])
    /\ metrics.block_history # <<>>
    /\ metrics.block_history[1].number = Unwrap(calls[Len(calls)].arg)
    /\ \A i \in 1..Len(metrics.block_history) :
           metrics.block_history[i].timestamp < Unwrap(metrics.latest_block_timestamp)

\* ---------------------------------------------------------------- first fetch and no new block
\* the running poll got past the chain-id probe and the block-number call
ConnectedPoll == Succeeded("get_chain_id") /\ Succeeded("get_block_number")

\* the timestamp of the block the node serves under a number
TimestampOf(num) == Value(CHOOSE res \in BlockResults(num) : res.ok).timestamp

\* with a non-empty history and a head not above its front entry, no block
\* is requested and the history is unchanged
NoNewBlock ==
    (PollDone /\ ConnectedPoll /\ prior_history # <<>> /\ LatestNum <= LastRecorded) =>
        /\ RequestedNumbers = <<>>
        /\ metrics.block_history = prior_history

FeeFields(m) ==
    <<m.fee_history, m.base_fee_per_gas, m.next_base_fee_per_gas, m.suggested_fees,
      m.gas_utilization_ma_n, m.gas_volatility_5m, m.max_priority_fee_suggested>>

\* C20: fee history and the priority-fee suggestion are requested only while
\* the status is still Connected after the gas-price call: a poll whose
\* gas-price call failed requests neither, and no step of such a poll
\* changes a fee-derived field.
C20_FeeCallsOnlyIfConnected ==
    /\ [](Failed("get_gas_price") =>
             /\ ~Called("get_fee_history")
             /\ ~Called("get_max_priority_fee_per_gas"))
    /\ [][Failed("get_gas_price") => FeeFields(metrics') = FeeFields(metrics)]_vars

\* ---------------------------------------------------------------- status classification
\* C21: after a poll the status is Connected exactly when the chain-id, the
\* block-number and the gas-price call all succeeded in it; otherwise it is
\* the Error named after the first of the three, in that order, that failed,
\* and none of the three was called after the one that failed.
C21_FirstFailureNamed ==
    PollDone =>
        LET cs == metrics.connection_status
        IN  /\ cs = Connected <=>
                   /\ Succeeded("get_chain_id")
                   /\ Succeeded("get_block_number")
                   /\ Succeeded("get_gas_price")
            /\ Failed("get_chain_id") =>
                   /\ cs = Error("Chain ID")
                   /\ ~Called("get_block_number")
                   /\ ~Called("get_gas_price")
            /\ (Succeeded("get_chain_id") /\ Failed("get_block_number")) =>
                   /\ cs = Error("Block number")
                   /\ ~Called("get_gas_price")
            /\ (Succeeded("get_chain_id") /\ Succeeded("get_block_number")
                   /\ Failed("get_gas_price")) =>
                   cs = Error("Gas price")
            /\ Called("get_chain_id")

\* C21 witness: the block fetch failed and the gas-price call failed after
\* it; the status names the gas price, the only liveness stage that failed.
C21_Witness ==
    /\ PollDone
    /\ Succeeded("get_block_number")
    /\ Failed("get_block_by_number")
    /\ Failed("get_gas_price")
    /\ metrics.connection_status = Error("Gas price")

\* ---------------------------------------------------------------- block-number failure
BlockNumberFailed == Succeeded("get_chain_id") /\ Failed("get_block_number")

\* block_number, block_history and gas_price
Recorded(m) == <<m.block_number, m.block_history, m.gas_price>>

\* C22: a poll whose block-number call failed after the chain-id probe
\* succeeded ends with status Error("Block number"), publishes last_updated
\* and fetches the tx-pool; from its start to its return no step changes
\* block_number, block_history or gas_price.
C22_BlockNumberFailure ==
    /\ []((PollDone /\ BlockNumberFailed) =>
             /\ metrics.connection_status = Error("Block number")
             /\ Called("fetch_metrics")
             /\ metrics.block_history = prior_history)
    /\ [][(BlockNumberFailed /\ pc = "finish" /\ pc' # "finish") =>
             metrics'.last_updated = now]_vars
    /\ [][(pc \in {"idle", "get_chain_id"} \/ BlockNumberFailed \/ BlockNumberFailed') =>
             Recorded(metrics') = Recorded(metrics)]_vars

\* C22 witness: an earlier poll recorded a block number, a block and a gas
\* price; this one failed at the block number and still fetched the tx-pool.
C22_Witness ==
    /\ PollDone
    /\ BlockNumberFailed
    /\ Called("fetch_metrics")
    /\ IsSome(metrics.block_number)
    /\ metrics.block_history # <<>>
    /\ IsSome(metrics.gas_price)
    /\ IsSome(metrics.last_successful)
    /\ metrics.last_updated > Unwrap(metrics.last_successful)

\* ---------------------------------------------------------------- failed block fetch
\* C23: a failed block fetch is skipped.  The poll requests every number of
\* the range whatever fails, every block it fetched went into the history
\* (it is there, or was evicted from it in this poll), and the step that
\* takes a block answer leaves the status alone and goes on to the next
\* number while there is one.
C23_FailedFetchSkipped ==
    /\ []((PollDone /\ ConnectedPoll) =>
             /\ RequestedNumbers = FetchRange(LatestNum, prior_history)
             /\ Range(FetchedNumbers) \subseteq
                    Range(Numbers(metrics.block_history)) \cup evicted)
    /\ [][pc = "get_block_by_number" =>
             /\ status' = status
             /\ pc' = IF Tail(fetch_range) # <<>> THEN "get_block_by_number"
                                                  ELSE "get_gas_price"]_vars

\* C23 witness: of three requested numbers the middle one failed; the other
\* two were fetched and are in the history, and the poll ends Connected.
C23_Witness ==
    /\ PollDone
    /\ Len(RequestedNumbers) = 3
    /\ ~calls[4].ok
    /\ FetchedNumbers = <<RequestedNumbers[1], RequestedNumbers[3]>>
    /\ Range(FetchedNumbers) \subseteq Range(Numbers(metrics.block_history))
    /\ metrics.connection_status = Connected

\* ---------------------------------------------------------------- front entry after a backfill
\* C24: after a poll whose backfill requested blocks and fetched every one
\* of them, with max_block_history at least 1, the front entry of the history
\* is the block of the reported head and no entry has a higher number.
C24_FrontIsHead ==
    (/\ PollDone
     /\ ConnectedPoll
     /\ metrics.max_block_history >= 1
     /\ RequestedNumbers # <<>>
     /\ FetchedNumbers = RequestedNumbers) =>
        /\ metrics.block_history # <<>>
        /\ metrics.block_history[1].number = LatestNum
        /\ \A i \in 1..Len(metrics.block_history) :
               metrics.block_history[i].number <= metrics.block_history[1].number

\* ---------------------------------------------------------------- convergence
\* the front entry of the history is the block at the chain's head
Converged ==
    /\ metrics.block_history # <<>>
    /\ metrics.block_history[1].number = Unwrap(head).num

\* C25: once the chain has stopped at a head H, with every call succeeding
\* and a capacity of at least one, there comes a poll from which on the front
\* entry of the history is block H whenever no poll is under way, and every
\* poll that starts with block H at the front requests no block and leaves
\* the history as it found it.
C25_Convergence ==
    /\ Fixed ~> [](pc \in {"idle", "return"} => Converged)
    /\ []((Fixed /\ PollDone /\ prior_history # <<>> /\ LastRecorded = Unwrap(head).num) =>
              /\ RequestedNumbers = <<>>
              /\ metrics.block_history = prior_history)

\* the chain stopped above the size of one batch, its head came to the front
\* of the history, and a later poll found it there and requested nothing
C25_Witness ==
    /\ Fixed
    /\ PollDone
    /\ Unwrap(head).num > MAX_BACKFILL_PER_CYCLE
    /\ prior_history # <<>>
    /\ LastRecorded = Unwrap(head).num
    /\ RequestedNumbers = <<>>
    /\ metrics.block_history = prior_history
    /\ Converged

\* ---------------------------------------------------------------- staleness
\* the time since the last poll that ended Connected
SinceSuccess == now - Unwrap(metrics.last_successful)

\* C26: check_staleness, run between polls on a snapshot whose status is
\* Connected or Stale and whose last_successful is set and more than
\* STALE_AFTER old, leaves the snapshot with status Stale and every other
\* field as it was; run on a snapshot whose last_successful is unset or at
\* most STALE_AFTER old, it leaves the whole snapshot as it was.
C26_CheckStaleness ==
    pc = "idle" =>
        /\ (/\ metrics.connection_status \in {Connected, Stale}
            /\ IsSome(metrics.last_successful)
            /\ SinceSuccess > STALE_AFTER) =>
               ENABLED (CheckStaleness
                          /\ metrics' = [metrics EXCEPT !.connection_status = Stale])
        /\ (metrics.last_successful = None \/ SinceSuccess <= STALE_AFTER) =>
               ENABLED (CheckStaleness /\ metrics' = metrics)

\* C26 witness: a snapshot that check_staleness has marked Stale one tick
\* after the threshold, with the values of its last Connected poll in place.
C26_Witness ==
    /\ pc = "idle"
    /\ metrics.connection_status = Stale
    /\ SinceSuccess = STALE_AFTER + TickSecs
    /\ IsSome(metrics.block_number)
    /\ IsSome(metrics.gas_price)

\* ---------------------------------------------------------------- order of the calls
\* the place of a method in the order of a poll
Stage(method) ==
    CASE method = "get_chain_id"                 -> 1
      [] method = "get_block_number"             -> 2
      [] method = "get_block_by_number"          -> 3
      [] method = "get_gas_price"                -> 4
      [] method = "get_fee_history"              -> 5
      [] method = "get_max_priority_fee_per_gas" -> 6
      [] method = "fetch_metrics"                -> 7

\* the call the poll is waiting for, if any
InFlight == IF pc \in RpcAwaits \cup {"fetch_metrics"} THEN {pc} ELSE {}

\* C27: the calls a poll has made so far stand in the order chain id, block
\* number, block fetches, gas price, fee history, priority fee, tx-pool; two
\* calls of the same stage are block fetches, the later one for a lower
\* number, so that no method and no block number is requested twice, failed
\* or not; and a call is made only once every earlier one has returned: the
\* one call in flight belongs to a stage after that of every call logged,
\* or is a block fetch that follows block fetches.
C27_CallOrder ==
    /\ \A i, j \in 1..Len(calls) :
           i < j =>
               \/ Stage(calls[i].method) < Stage(calls[j].method)
               \/ /\ IsBlockCall(calls[i])
                  /\ IsBlockCall(calls[j])
                  /\ Unwrap(calls[i].arg) > Unwrap(calls[j].arg)
    /\ Cardinality(InFlight) <= 1
    /\ \A m \in InFlight : \A i \in 1..Len(calls) :
           \/ Stage(calls[i].method) < Stage(m)
           \/ /\ m = "get_block_by_number"
              /\ IsBlockCall(calls[i])
              /\ Unwrap(calls[i].arg) > Head(fetch_range)

\* C27 witness: a finished poll that called every stage, with two block
\* fetches of which the first failed, and a failed gas-price call.
C27_Witness ==
    /\ PollDone
    /\ Len(calls) = 8
    /\ RequestedNumbers = <<3, 2>>
    /\ FetchedNumbers = <<2>>
    /\ Failed("get_gas_price")
    /\ Called("get_fee_history")
    /\ Called("get_max_priority_fee_per_gas")
    /\ Called("fetch_metrics")

\* ---------------------------------------------------------------- hex values of a fee history
\* a 0x-prefixed hexadecimal quantity
IsQuantity(s) ==
    /\ Len(s) >= 3
    /\ s[1] = "0"
    /\ s[2] = "x"
    /\ \A i \in 3..Len(s) : IsHexDigit(s[i])

\* the hex values of a fee-history answer
HexValues(h) ==
    {h.oldest_block} \cup Range(h.base_fee_per_gas)
        \cup UNION { Range(h.reward[i]) : i \in 1..Len(h.reward) }

\* C28: after a poll whose fee-history answer holds a value that is not a
\* 0x-prefixed hex quantity, in a base fee, a reward or the oldest block, the
\* fee-derived fields are absent as after a failed fee-history call.
C28_InvalidHexFails ==
    (FeeFetched /\ \E v \in HexValues(FetchedFeeResponse) : ~IsQuantity(v)) =>
        /\ metrics.suggested_fees = None
        /\ metrics.fee_history = None
        /\ metrics.base_fee_per_gas = None
        /\ metrics.next_base_fee_per_gas = None
        /\ metrics.gas_utilization_ma_n = None
        /\ metrics.gas_volatility_5m = None

\* ---------------------------------------------------------------- reward row of the tiers
\* the priority fees the poll published for the three tiers
PublishedPriority(tier) == Unwrap(metrics.suggested_fees)[tier].max_priority_fee_per_gas

\* C29: after a poll whose fee-history answer has a reward row and gives a
\* next base fee, each tier whose own percentile (25th for safe, 50th for
\* standard, 75th for fast) is decodable in the final reward row reports
\* that value as its priority fee, whatever the length of gasUsedRatio.
C29_FinalRewardRow ==
    (FeeFetched /\ FetchedFeeResponse.reward # <<>> /\ IsSome(metrics.next_base_fee_per_gas)) =>
        LET h == FetchedFeeResponse
            row == h.reward[Len(h.reward)]
        IN  /\ IsSome(RowValue(row, 25)) => PublishedPriority("safe") = Unwrap(RowValue(row, 25))
            /\ IsSome(RowValue(row, 50)) =>
                   PublishedPriority("standard") = Unwrap(RowValue(row, 50))
            /\ IsSome(RowValue(row, 75)) => PublishedPriority("fast") = Unwrap(RowValue(row, 75))

\* ---------------------------------------------------------------- base fee pair
\* the base fees of the answer that decode, in the order of the answer
DecodedBaseFees ==
    LET raw == FetchedFeeResponse.base_fee_per_gas
        ok(x) == IsSome(hex_to_u128(x))
        kept == SelectSeq(raw, ok)
    IN  [i \in 1..Len(kept) |-> Unwrap(hex_to_u128(kept[i]))]

\* C30: after a poll whose fee-history call succeeded, with b the decoded
\* base fees and n their number: base_fee_per_gas is b[n-2] and
\* next_base_fee_per_gas is b[n-1] if n >= 2; base_fee_per_gas is b[0] and
\* next_base_fee_per_gas is absent if n = 1; both are absent if n = 0.
C30_BaseFeePair ==
    FeeFetched =>
        LET b == DecodedBaseFees
            n == Len(b)
        IN  /\ n >= 2 => /\ metrics.base_fee_per_gas = Some(b[n - 1])
                         /\ metrics.next_base_fee_per_gas = Some(b[n])
            /\ n = 1 => /\ metrics.base_fee_per_gas = Some(b[1])
                        /\ metrics.next_base_fee_per_gas = None
            /\ n = 0 => /\ metrics.base_fee_per_gas = None
                        /\ metrics.next_base_fee_per_gas = None

\* C30 witness: an answer with three base fees of which the middle one does
\* not decode, so that the pair is the first and the third.
C30_Witness ==
    /\ FeeFetched
    /\ Len(FetchedFeeResponse.base_fee_per_gas) = 3
    /\ Len(DecodedBaseFees) = 2
    /\ metrics.base_fee_per_gas = Some(8)
    /\ metrics.next_base_fee_per_gas = Some(10)

\* ---------------------------------------------------------------- tier amounts
\* the tier the claim describes for an optional priority fee and an optional
\* next base fee
ExpectedTier(prio, next) ==
    IF IsSome(prio) /\ IsSome(next)
    THEN [max_fee_per_gas |->
              Min(U128_MAX, Unwrap(next) + Unwrap(prio) * SUGGESTION_RAMP_FACTOR),
          max_priority_fee_per_gas |-> Unwrap(prio)]
    ELSE [max_fee_per_gas |-> 0, max_priority_fee_per_gas |-> 0]

\* C31: after a successful fee-history fetch each tier is, with p its
\* priority fee and n the next base fee both known, max_fee_per_gas =
\* n + p * SUGGESTION_RAMP_FACTOR, capped at the largest u128, and
\* max_priority_fee_per_gas = p; with either unknown it is (0, 0).
C31_TierAmounts ==
    FeeFetched =>
        LET h == FetchedFeeResponse
            row == h.reward[Len(h.reward)]
            safe == FirstAvailable(<<RowValue(row, 25), RowValue(row, 10), RowValue(row, 50)>>)
            std == FirstAvailable(<<RowValue(row, 50), safe>>)
            fast == FirstAvailable(<<RowValue(row, 75), RowValue(row, 90), std>>)
            next == metrics.next_base_fee_per_gas
            fees == Unwrap(metrics.suggested_fees)
        IN  /\ fees.safe = ExpectedTier(safe, next)
            /\ fees.standard = ExpectedTier(std, next)
            /\ fees.fast = ExpectedTier(fast, next)

\* ---------------------------------------------------------------- fee fields and the prior snapshot
\* the fields the fee-history arm writes
FeeDerived(m) ==
    <<m.base_fee_per_gas, m.next_base_fee_per_gas, m.suggested_fees, m.fee_history,
      m.gas_utilization_ma_n, m.gas_volatility_5m>>

\* the snapshot of a collector that was just built
FreshSnapshot == SignetMetricsNew(1)

\* C32: after a poll whose fee-history call succeeded, the fee-derived
\* fields are those a newly built collector has after receiving the same
\* answer: whatever the snapshot was before the poll, two collectors given
\* the same answer end with the same base fee, next base fee, suggested
\* fees, fee history, utilization average and volatility.
C32_FeeFieldsFromResponse ==
    FeeFetched =>
        FeeDerived(metrics) = FeeDerived(FeeHistoryOk(FreshSnapshot, FetchedFeeResponse))

\* C32 witness: a poll that found block 1 recorded by an earlier poll, on a
\* snapshot that carried that poll's fee fields, and received an answer
\* without next base fee.
C32_Witness ==
    /\ FeeFetched
    /\ prior_history # <<>>
    /\ RequestedNumbers = <<>>
    /\ Len(FetchedFeeResponse.base_fee_per_gas) = 1
    /\ metrics.base_fee_per_gas = Some(8)
    /\ metrics.next_base_fee_per_gas = None
    /\ metrics.gas_volatility_5m = None

\* ---------------------------------------------------------------- volatility
Sign(x) == IF x > 0 THEN 1 ELSE IF x < 0 THEN 0 - 1 ELSE 0

\* C33: after a poll whose fee-history call succeeded, with b the decoded
\* base fees and the sample b without its last entry: gas_volatility_5m is
\* present exactly when b has two or more entries and the sample's sum is
\* not zero; when present its sign is the sign of (last entry of the sample
\* minus the sample's average), and it is zero when b has exactly two
\* entries.
C33_Volatility ==
    FeeFetched =>
        LET b == DecodedBaseFees
            n == Len(b)
            sample == SubSeq(b, 1, n - 1)
            v == metrics.gas_volatility_5m
        IN  /\ IsSome(v) <=> (n >= 2 /\ SumSeq(sample) # 0)
            /\ IsSome(v) =>
                   /\ Sign(Unwrap(v)[1]) = Sign(sample[n - 1] * (n - 1) - SumSeq(sample))
                   /\ n = 2 => Unwrap(v)[1] = 0

\* ---------------------------------------------------------------- priority-fee suggestion
\* the step in which the priority-fee call returns a failure
PriorityFeeFails ==
    /\ pc = "get_max_priority_fee_per_gas"
    /\ pc' = "finish"
    /\ ~calls'[Len(calls')].ok

\* C34: the step in which the priority-fee call fails sets
\* max_priority_fee_suggested to None and leaves the status of the poll and
\* every other field of the snapshot as they were, and the poll publishes
\* the status it had before the call.
C34_PriorityFeeFailure ==
    /\ [][PriorityFeeFails =>
              /\ metrics' = [metrics EXCEPT !.max_priority_fee_suggested = None]
              /\ status' = status]_vars
    /\ []((PollDone /\ Failed("get_max_priority_fee_per_gas")) =>
              /\ metrics.max_priority_fee_suggested = None
              /\ metrics.connection_status =
                     IF Succeeded("get_gas_price") THEN Connected ELSE Error("Gas price"))

\* C34 witness: a poll ended Connected with gas price, fee-derived fields
\* and block history set although its priority-fee call failed.
C34_Witness ==
    /\ PollDone
    /\ Failed("get_max_priority_fee_per_gas")
    /\ metrics.max_priority_fee_suggested = None
    /\ metrics.connection_status = Connected
    /\ IsSome(metrics.gas_price)
    /\ IsSome(metrics.suggested_fees)
    /\ metrics.block_history # <<>>

\* ---------------------------------------------------------------- status values
\* C35: right after a completed poll the status is Connected or Error; a
\* status other than Disconnected never becomes Disconnected, so that
\* Disconnected is seen only until the first poll completes; and the status
\* becomes Stale only in a step of check_staleness, which runs between
\* polls and moves neither the poll nor the clock.
C35_StatusValues ==
    /\ [](PollDone => metrics.connection_status.tag \in {"Connected", "Error"})
    /\ [][metrics.connection_status # Disconnected =>
              metrics'.connection_status # Disconnected]_vars
    /\ [][(metrics'.connection_status = Stale /\ metrics.connection_status # Stale) =>
              (pc = "idle" /\ pc' = "idle" /\ now' = now /\ calls' = calls)]_vars

\* C35 witness: a poll on a snapshot whose last Connected poll lies more
\* than the threshold back has completed with an Error status.
C35_Witness ==
    /\ PollDone
    /\ metrics.connection_status.tag = "Error"
    /\ IsSome(metrics.last_successful)
    /\ metrics.last_updated - Unwrap(metrics.last_successful) > STALE_AFTER + TickSecs

\* ---------------------------------------------------------------- timestamps
\* C36: in every state, a snapshot whose status is Connected or Stale has
\* last_successful set, and a last_successful that is set is not later than
\* last_updated.
C36_SuccessStamp ==
    /\ metrics.connection_status \in {Connected, Stale} => IsSome(metrics.last_successful)
    /\ IsSome(metrics.last_successful) =>
           Unwrap(metrics.last_successful) <= metrics.last_updated

\* C36 witness: a Stale snapshot whose last poll was its last Connected one,
\* and that a new poll is working on.
C36_Witness ==
    /\ metrics.connection_status = Stale
    /\ metrics.last_successful = Some(metrics.last_updated)
    /\ metrics.last_updated > 0
    /\ pc = "get_gas_price"

\* ---------------------------------------------------------------- staleness at render
\* C37: main reaches its render only from check_staleness on the rollup
\* collector, and that only from check_staleness on the host collector, so
\* neither snapshot handed to the renderer has status Connected with a
\* last_successful more than STALE_AFTER old.
C37_RenderAfterChecks ==
    /\ [](main_pc = "render" =>
            \A c \in Collectors :
                ~(/\ MetricsOf(c).connection_status = Connected
                  /\ IsSome(MetricsOf(c).last_successful)
                  /\ now - Unwrap(MetricsOf(c).last_successful) > STALE_AFTER))
    /\ [][(main_pc # "render" /\ main_pc' = "render") => main_pc = "stale_rollup"]_vars
    /\ [][(main_pc # "stale_rollup" /\ main_pc' = "stale_rollup")
             => main_pc = "stale_host"]_vars

\* C37 witness: main renders a host snapshot that passed the threshold since
\* the last refresh and was marked Stale, next to a rollup snapshot in Error.
C37_Witness ==
    /\ main_pc = "render"
    /\ MetricsOf("host").connection_status = Stale
    /\ IsSome(MetricsOf("host").last_successful)
    /\ now - Unwrap(MetricsOf("host").last_successful) > STALE_AFTER
    /\ IsError(Some(MetricsOf("rollup").connection_status))

\* ---------------------------------------------------------------- errors of the tx-pool endpoints
\* the labels of the sub-fetches recorded in the snapshot's error field
RecordedErrors(tp) == IF IsSome(tp.error) THEN Range(Unwrap(tp.error)) ELSE {}

\* the endpoint answered with a non-2xx status or with a body that is not JSON
Unusable(resp) == resp.transport = "ok" /\ (~resp.success \/ ~resp.is_json)

\* C38: after a tx-pool fetch, a count endpoint is recorded as an error
\* exactly when its request failed at transport level; a count endpoint that
\* answered with a non-2xx status or a non-JSON body leaves its count unknown
\* and records nothing, so that a fetch with no other failure is healthy and
\* has no error; a non-2xx answer of the transaction-list endpoint is
\* recorded as an error.
C38_CountEndpointErrors ==
    PoolFetched =>
        LET tp == Unwrap(metrics.txpool)
            r == Responses
            errs == RecordedErrors(tp)
        IN  /\ "transactions" \in errs <=> r.transactions.transport = "failed"
            /\ "bundles" \in errs <=> r.bundles.transport = "failed"
            /\ "signed-orders" \in errs <=> r.signed_orders.transport = "failed"
            /\ Unusable(r.transactions) => tp.transactions_cache = None
            /\ Unusable(r.bundles) => tp.bundles_cache = None
            /\ Unusable(r.signed_orders) => tp.signed_orders_cache = None
            /\ (/\ r.transactions.transport = "ok"
                /\ r.bundles.transport = "ok"
                /\ r.signed_orders.transport = "ok"
                /\ ~ListErrored(r.list)) => (tp.healthy /\ tp.error = None)
            /\ (/\ Unwrap(tx_client).fetch_list
                /\ r.list.transport = "ok"
                /\ ~r.list.success) => "transactions list" \in errs

\* C38 witness: a fetch in which one count endpoint answered non-2xx, one
\* with a body that is not JSON and the list endpoint with a page; no count
\* of the two is known, no error is recorded and the snapshot is healthy.
C38_Witness ==
    /\ PoolFetched
    /\ Unwrap(tx_client).fetch_list
    /\ ~Responses.transactions.success /\ Responses.transactions.transport = "ok"
    /\ Responses.bundles.success /\ ~Responses.bundles.is_json
    /\ Responses.list.success /\ Responses.list.is_json
    /\ Unwrap(metrics.txpool).transactions_cache = None
    /\ Unwrap(metrics.txpool).bundles_cache = None
    /\ Unwrap(metrics.txpool).error = None
    /\ Unwrap(metrics.txpool).healthy

====
